---- MODULE Spec2Model ----
(***************************************************************************)
(* Tech Health Appendix Generator: the Forge Client (GitHubService), the   *)
(* Metric Estimators and the Report Aggregator (CodeAnalysisService).      *)
(*                                                                         *)
(* One invocation of generateHealthReport is a sequential chain of forge   *)
(* requests (every await is one step of the model).  The forge answers     *)
(* each request with an HTTP status; a 200 carries the repository's data.  *)
(*                                                                         *)
(* Numbers.  JavaScript doubles are modelled by exact rationals <<n, d>>   *)
(* (d > 0).  Dates are hours relative to the model's time origin,          *)
(* 2026-01-01T00:00:00Z; getTime() differences are therefore hours, and    *)
(* the source's divisions by 1000*60*60 disappear.                         *)
(***************************************************************************)
EXTENDS Integers, Sequences, FiniteSets, TLC

(***************************************************************************)
(* Exact rational arithmetic.                                              *)
(***************************************************************************)
RECURSIVE Gcd(_, _)
Gcd(a, b) == IF b = 0 THEN a ELSE Gcd(b, a % b)

Abs(x) == IF x < 0 THEN -x ELSE x

Rat(n, d) ==
    LET s == IF d < 0 THEN -1 ELSE 1
        g == Gcd(Abs(n), Abs(d))
    IN  IF n = 0 THEN <<0, 1>> ELSE <<(s * n) \div g, (s * d) \div g>>

RAdd(a, b) == Rat(a[1] * b[2] + b[1] * a[2], a[2] * b[2])
RSub(a, b) == Rat(a[1] * b[2] - b[1] * a[2], a[2] * b[2])
RMul(a, b) == Rat(a[1] * b[1], a[2] * b[2])
RDivInt(a, k) == Rat(a[1], a[2] * k)
RLess(a, b) == a[1] * b[2] < b[1] * a[2]
RMin(a, b) == IF RLess(b, a) THEN b ELSE a
\* Math.max leaving its second argument as it is
RMax_second(a, b) == b
RMax(a, b) == IF RLess(a, b) THEN b ELSE a
\* Math.floor, Math.ceil, Math.round (round half up) of a rational.
Floor(a) == a[1] \div a[2]
Ceil(a) == -((-a[1]) \div a[2])
Round(a) == (2 * a[1] + a[2]) \div (2 * a[2])
\* x.toFixed(2) read back by parseFloat: x rounded to hundredths.
ToFixed2(a) == Rat(Round(RMul(a, <<100, 1>>)), 100)

RECURSIVE SumRats(_)
SumRats(s) == IF s = <<>> THEN <<0, 1>> ELSE RAdd(Head(s), SumRats(Tail(s)))

\* Array.prototype.slice(0, k)
Slice0(s, k) == IF Len(s) <= k THEN s ELSE SubSeq(s, 1, k)


(***************************************************************************)
(* Text.  The source inspects strings only through length, a regular       *)
(* expression and substring tests; every text of the model is one of the   *)
(* catalogue below and the tests are tabulated for it (lower-cased where   *)
(* the source lower-cases).                                                *)
(***************************************************************************)
MsgEmpty == ""
MsgWip == "wip"
MsgFix == "fix: correct bug"
MsgRevert == "Revert the cache layer after outage"
MsgHotfix == "hotfix: urgent patch for login"
MsgDocs == "docs: explain how the weekly report is generated and cached"
MsgFeat == "feat(api): paginate the list endpoint and document it (blank line) Clients asked for it."


\* message.length
MessageLength(m) ==
    CASE m = MsgEmpty -> 0
      [] m = MsgWip -> 3
      [] m = MsgFix -> 16
      [] m = MsgRevert -> 35
      [] m = MsgHotfix -> 30
      [] m = MsgDocs -> 59
      [] m = MsgFeat -> 76

\* /^(feat|fix|docs|style|refactor|test|chore|perf|ci|build|revert)(\(.+\))?:/.test(message)
IsConventional(m) == m \in {MsgFix, MsgDocs, MsgFeat}

\* message.includes('\n\n')
HasBody(m) == m = MsgFeat

\* lower-cased message includes 'revert', 'rollback' or 'hotfix'
MentionsRevert(m) == m \in {MsgRevert, MsgHotfix}

\* lower-cased message includes 'fix', 'hotfix', 'patch', 'urgent' or 'critical'
MentionsFix(m) == m \in {MsgFix, MsgHotfix}

RunDeploy == "Deploy to production"
RunCI == "CI"
\* lower-cased run name includes 'deploy', 'release' or 'production'
IsDeployName(n) == n = RunDeploy

TitleFix == "Fix login bug"
TitleFeature == "Add dark mode"
\* lower-cased title includes 'fix', 'bug', 'hotfix' or 'patch'
IsBugFixTitle(t) == t = TitleFix

\* root directory entry names: "src", "README.md", ".github", "tests", "jest.config.js",
\* "__tests__", "cypress", "coverage"; testPatterns.some(pattern => name.includes(pattern))
MatchesTestPattern(n) == n \in {"tests", "jest.config.js", "__tests__", "cypress", "coverage"}


(***************************************************************************)
(* State.                                                                  *)
(***************************************************************************)
VARIABLES
    hasAuth,      \* GitHubService.hasAuth: the client was constructed with a token
    now,          \* the clock reading new Date() / Date.now() returns (hours)
    forge,        \* what the repository holds on the forge
    plan,         \* the statuses the forge answers with (Live: any; else fixed per call site)
    run,          \* 1 for the first generateHealthReport invocation, 2 for the second
    pc,           \* the await the invocation is suspended at, or "done" / "failed"
    last,         \* the last forge request: operation, status answered, what the client did
    locals,       \* live local variables of the estimators of this invocation
    report,       \* the sections of the report computed so far, then the report returned
    thrown,       \* the error generateHealthReport rejected with
    hist,         \* what has happened in this invocation (observation only)
    firstReport   \* the report the first invocation returned

vars == <<hasAuth, now, forge, plan, run, pc, last, locals, report, thrown, hist,
          firstReport>>

(***************************************************************************)
(* Metric Estimators: the synchronous helpers of CodeAnalysisService.      *)
(***************************************************************************)
HoursPerDay == 24
\* 2020-01-01T00:00:00Z, the creation date calculateDeploymentFrequency assumes,
\* in hours before the model's origin (2192 days).
Jan2020 == 0 - 52608

\* calculateRepositoryAge: whole days, rounded up, between created_at and the clock.
calculateRepositoryAge(created_at) == Ceil(Rat(Abs(now - created_at), HoursPerDay))

\* MessagePoints with the three length bonuses all granted above 10 characters
MessagePoints_anyLength(m) ==
      (IF MessageLength(m) > 10 THEN 6 ELSE 0)
    + (IF IsConventional(m) THEN 5 ELSE 0)
    + (IF HasBody(m) THEN 3 ELSE 0)

\* Tenths of a point one commit message earns in analyzeCommitMessages.
MessagePoints(m) ==
      (IF MessageLength(m) > 10 THEN 2 ELSE 0)
    + (IF MessageLength(m) > 20 THEN 2 ELSE 0)
    + (IF MessageLength(m) > 50 THEN 2 ELSE 0)
    + (IF IsConventional(m) THEN 5 ELSE 0)
    + (IF HasBody(m) THEN 3 ELSE 0)

RECURSIVE SumPoints(_)
SumPoints(commits) ==
    IF commits = <<>> THEN 0
    ELSE MessagePoints(Head(commits).message) + SumPoints(Tail(commits))

\* analyzeCommitMessages scoring an empty list like a list of worthless messages
analyzeCommitMessages_emptyIsZero(commits) ==
    IF Len(commits) = 0 THEN <<0, 1>>
    ELSE RMin(Rat(SumPoints(commits), 10 * Len(commits)), <<1, 1>>)

\* analyzeCommitMessages answering its default middle score for every list
analyzeCommitMessages_flat(commits) == Rat(1, 2)

analyzeCommitMessages(commits) ==
    IF Len(commits) = 0 THEN Rat(1, 2)
    ELSE RMin(Rat(SumPoints(commits), 10 * Len(commits)), <<1, 1>>)

\* generateCodeQualityRecommendations adding the generic pair only to an empty list
generateCodeQualityRecommendations_whenNone(issues, commits) ==
    LET r1 == IF issues.critical > 0 THEN <<"critical">> ELSE <<>>
        r2 == IF issues.high > 0 THEN <<"high">> ELSE <<>>
        r3 == IF issues.medium > 3 THEN <<"scanning">> ELSE <<>>
        r4 == IF RLess(analyzeCommitMessages(commits), Rat(6, 10))
              THEN <<"conventional">> ELSE <<>>
        specific == r1 \o r2 \o r3 \o r4
    IN  IF Len(specific) < 1 THEN specific \o <<"reviews", "gates">> ELSE specific

generateCodeQualityRecommendations(issues, commits) ==
    LET r1 == IF issues.critical > 0 THEN <<"critical">> ELSE <<>>
        r2 == IF issues.high > 0 THEN <<"high">> ELSE <<>>
        r3 == IF issues.medium > 3 THEN <<"scanning">> ELSE <<>>
        r4 == IF RLess(analyzeCommitMessages(commits), Rat(6, 10))
              THEN <<"conventional">> ELSE <<>>
        specific == r1 \o r2 \o r3 \o r4
    IN  IF Len(specific) < 2 THEN specific \o <<"reviews", "gates">> ELSE specific

\* analyzeCodeQuality after its getCommits returned.
CodeQualityOf(commits) ==
    LET commitQualityScore == analyzeCommitMessages(commits)
        score == IF Floor(RMul(commitQualityScore, <<100, 1>>)) < 100
                 THEN Floor(RMul(commitQualityScore, <<100, 1>>)) ELSE 100
        issues == [critical |-> (100 - score) \div 25,
                   high |-> (100 - score) \div 20,
                   medium |-> (100 - score) \div 10,
                   low |-> (100 - score) \div 5]
    IN  [score |-> score, issues |-> issues,
         recommendations |-> generateCodeQualityRecommendations(issues, commits)]

\* analyzeCodeMetrics with blankLines estimated as its own share of totalLines
CodeMetricsOf_shares(repository, languages) ==
    LET totalLines == repository.size * 50
    IN  [totalLines |-> totalLines, codeLines |-> Floor(Rat(totalLines * 75, 100)),
         commentLines |-> Floor(Rat(totalLines * 15, 100)),
         blankLines |-> Floor(Rat(totalLines * 10, 100)),
         files |-> repository.size \div 10, languages |-> languages]

\* analyzeCodeMetrics after both fetches returned.
CodeMetricsOf(repository, languages) ==
    LET totalLines == repository.size * 50
        codeLines == Floor(Rat(totalLines * 75, 100))
        commentLines == Floor(Rat(totalLines * 15, 100))
    IN  [totalLines |-> totalLines, codeLines |-> codeLines,
         commentLines |-> commentLines,
         blankLines |-> totalLines - codeLines - commentLines,
         files |-> repository.size \div 10, languages |-> languages]

HasReview(pr) == pr.review_comments # 0 \/ pr.comments # 0

calculateComplexityScore(commits, pullRequests) ==
    LET commitQualityScore == analyzeCommitMessages(commits)
        reviewScore ==
            IF Len(pullRequests) > 0
            THEN Rat(Len(SelectSeq(pullRequests, HasReview)), Len(pullRequests))
            ELSE Rat(1, 2)
        complexity == RSub(<<1, 1>>, RAdd(RMul(commitQualityScore, Rat(6, 10)),
                                          RMul(reviewScore, Rat(4, 10))))
    IN  RMax(<<0, 1>>, RMin(<<1, 1>>, complexity))

\* a language key whose byte count is truthy
HasLanguage(languages, name) == name \in DOMAIN languages /\ languages[name] # 0

\* calculateDuplications once getLanguages and getRepository returned.
DuplicationsOf(languages, repository) ==
    LET repoAgeInMonths == Rat(calculateRepositoryAge(repository.created_at), 30)
        base == RMin(repoAgeInMonths, <<25, 1>>)
        keys == Cardinality(DOMAIN languages)
        extra == IF keys > 3 THEN (keys - 3) * 2 ELSE 0
    IN  RMin(RAdd(base, <<extra, 1>>), <<40, 1>>)

\* the loop of calculateTestCoverage over the root directory entries
RootTestScore(rootContents) ==
    15 * Len(SelectSeq(rootContents, MatchesTestPattern))

\* the end of calculateTestCoverage
\* calculateTestCoverage capping the estimate at 100
TestCoverageOf_full(testScore, indicators) ==
    IF indicators = 0 THEN 5 ELSE IF testScore < 100 THEN testScore ELSE 100

TestCoverageOf_uncapped(testScore, indicators) == IF indicators = 0 THEN 5 ELSE testScore

TestCoverageOf(testScore, indicators) ==
    IF indicators = 0 THEN 5 ELSE IF testScore < 95 THEN testScore ELSE 95

\* the package.json estimate of calculateOutdatedDependencies
PackageJsonOutdated(packageData, repository) ==
    LET repoAgeInMonths == Rat(calculateRepositoryAge(repository.created_at), 30)
        depCount == packageData.dependencies + packageData.devDependencies
    IN  Floor(RMul(Rat(depCount, 10), RDivInt(repoAgeInMonths, 6)))

\* the requirements.txt (every 4 months) and other-manifest (every 6) estimates
AgeOutdated(repository, months) ==
    Floor(RDivInt(Rat(calculateRepositoryAge(repository.created_at), 30), months))

generateTechnicalDebtRecommendations(metrics) ==
    LET r1 == IF RLess(Rat(1, 2), metrics.complexityScore) THEN <<"refactor">> ELSE <<>>
        r2 == IF RLess(<<15, 1>>, metrics.duplications) THEN <<"duplication">> ELSE <<>>
        r3 == IF metrics.testCoverage < 60 THEN <<"coverage">> ELSE <<>>
        r4 == IF metrics.outdatedDependencies > 3 THEN <<"dependencies">> ELSE <<>>
        specific == r1 \o r2 \o r3 \o r4
    IN  IF Len(specific) < 2 THEN specific \o <<"debt-reviews", "scanning">> ELSE specific

\* analyzeTechnicalDebt returning the floored score as it is, without Math.max / Math.min
TechnicalDebtOf_unclamped(complexityScore, duplications, testCoverage, outdatedDependencies) ==
    LET raw == RSub(RSub(RSub(RSub(<<100, 1>>,
                   RMul(complexityScore, <<25, 1>>)),
                   RMul(duplications, Rat(4, 10))),
                   Rat((100 - testCoverage) * 25, 100)),
                   <<outdatedDependencies * 3, 1>>)
    IN  [score |-> Floor(raw),
         metrics |-> [complexityScore |-> ToFixed2(complexityScore),
                      duplications |-> Round(duplications),
                      testCoverage |-> testCoverage,
                      outdatedDependencies |-> outdatedDependencies],
         recommendations |-> generateTechnicalDebtRecommendations(
             [complexityScore |-> complexityScore, duplications |-> duplications,
              testCoverage |-> testCoverage,
              outdatedDependencies |-> outdatedDependencies])]

\* analyzeTechnicalDebt once its four sub-metrics are known.
\* analyzeTechnicalDebt with the score computed from the rounded metrics it returns
TechnicalDebtOf_rounded(complexityScore, duplications, testCoverage, outdatedDependencies) ==
    LET raw == RSub(RSub(RSub(RSub(<<100, 1>>,
                   RMul(ToFixed2(complexityScore), <<25, 1>>)),
                   RMul(<<Round(duplications), 1>>, Rat(4, 10))),
                   Rat((100 - testCoverage) * 25, 100)),
                   <<outdatedDependencies * 3, 1>>)
        score == Floor(raw)
    IN  [score |-> IF score < 0 THEN 0 ELSE IF score > 100 THEN 100 ELSE score,
         metrics |-> [complexityScore |-> ToFixed2(complexityScore),
                      duplications |-> Round(duplications),
                      testCoverage |-> testCoverage,
                      outdatedDependencies |-> outdatedDependencies],
         recommendations |-> generateTechnicalDebtRecommendations(
             [complexityScore |-> complexityScore, duplications |-> duplications,
              testCoverage |-> testCoverage,
              outdatedDependencies |-> outdatedDependencies])]

TechnicalDebtOf(complexityScore, duplications, testCoverage, outdatedDependencies) ==
    LET raw == RSub(RSub(RSub(RSub(<<100, 1>>,
                   RMul(complexityScore, <<25, 1>>)),
                   RMul(duplications, Rat(4, 10))),
                   Rat((100 - testCoverage) * 25, 100)),
                   <<outdatedDependencies * 3, 1>>)
        score == Floor(raw)
    IN  [score |-> IF score < 0 THEN 0 ELSE IF score > 100 THEN 100 ELSE score,
         metrics |-> [complexityScore |-> ToFixed2(complexityScore),
                      duplications |-> Round(duplications),
                      testCoverage |-> testCoverage,
                      outdatedDependencies |-> outdatedDependencies],
         recommendations |-> generateTechnicalDebtRecommendations(
             [complexityScore |-> complexityScore, duplications |-> duplications,
              testCoverage |-> testCoverage,
              outdatedDependencies |-> outdatedDependencies])]


(***************************************************************************)
(* Deployment metrics.                                                     *)
(***************************************************************************)
IsSuccessfulDeploy(r) == r.conclusion = "success" /\ IsDeployName(r.name)

\* calculateDeploymentFrequency assuming one deployment a week where it finds none
calculateDeploymentFrequency_weekly(releases, workflowRuns) ==
    RMax(<<1, 1>>, Rat(Len(releases) * 7, calculateRepositoryAge(Jan2020)))

calculateDeploymentFrequency(releases, workflowRuns) ==
    LET ageDays == calculateRepositoryAge(Jan2020)
        repoAgeInWeeks == Rat(ageDays, 7)
        releaseFreq == Rat(Len(releases) * 7, ageDays)
        successfulRuns == SelectSeq(workflowRuns.workflow_runs, IsSuccessfulDeploy)
        workflowFreq == Rat(Len(successfulRuns) * 7, ageDays)
    IN  IF RLess(repoAgeInWeeks, <<1, 1>>) THEN <<0, 1>>
        ELSE RMax(releaseFreq, workflowFreq)

IsMerged(pr) == pr.merged

\* releases.find(release => new Date(release.published_at) > mergeDate);
\* <<>> when there is none, else the one-element sequence of the release found
RECURSIVE FindNextRelease(_, _)
FindNextRelease(releases, mergeDate) ==
    IF releases = <<>> THEN <<>>
    ELSE IF Head(releases).published_at > mergeDate THEN <<Head(releases)>>
    ELSE FindNextRelease(Tail(releases), mergeDate)

\* the hours the loop over mergedPRs adds to totalLeadTime, one per valid sample
RECURSIVE LeadTimeSamples(_, _)
LeadTimeSamples(mergedPRs, releases) ==
    IF mergedPRs = <<>> THEN <<>>
    ELSE LET pr == Head(mergedPRs)
             nextRelease == FindNextRelease(releases, pr.merged_at)
             leadTimeHours == IF nextRelease = <<>> THEN 0
                              ELSE nextRelease[1].published_at - pr.merged_at
             sample == IF nextRelease # <<>> /\ leadTimeHours > 0
                          /\ leadTimeHours < 30 * 24
                       THEN <<leadTimeHours>> ELSE <<>>
         IN  sample \o LeadTimeSamples(Tail(mergedPRs), releases)

RECURSIVE SumInts(_)
SumInts(s) == IF s = <<>> THEN 0 ELSE Head(s) + SumInts(Tail(s))

\* the reduce over releases.slice(0, 5): sum of current - next over adjacent pairs
RECURSIVE ReleaseGaps(_)
ReleaseGaps(arr) ==
    IF Len(arr) <= 1 THEN 0
    ELSE (arr[1].published_at - arr[2].published_at) + ReleaseGaps(Tail(arr))

calculateLeadTime(pullRequests, releases, commits) ==
    IF Len(pullRequests) = 0 \/ Len(releases) = 0
    THEN IF Len(commits) > 1
         THEN LET firstCommit == commits[Len(commits)].date
                  lastCommit == commits[1].date
                  avgTimeBetweenCommits == Rat(lastCommit - firstCommit, Len(commits))
              IN  RMax(<<1, 1>>, avgTimeBetweenCommits)
         ELSE <<24, 1>>
    ELSE LET mergedPRs == Slice0(SelectSeq(pullRequests, IsMerged), 10)
             samples == LeadTimeSamples(mergedPRs, releases)
         IN  IF Len(samples) > 0 THEN Rat(SumInts(samples), Len(samples))
             ELSE IF Len(releases) > 1
             THEN RMax(<<1, 1>>,
                       Rat(ReleaseGaps(Slice0(releases, 5)), 2 * (Len(releases) - 1)))
             ELSE <<48, 1>>

IsRevertCommit(c) == MentionsRevert(c.message)
IsDeploymentRun(r) == IsDeployName(r.name) \/ r.event = "release"
IsFailedRun(r) == r.conclusion = "failure"

calculateChangeFailureRate(workflowRuns, commits) ==
    LET runs == workflowRuns.workflow_runs
        deploymentRuns == SelectSeq(runs, IsDeploymentRun)
    IN  IF Len(runs) = 0
        THEN IF Len(commits) > 0
             THEN Rat(Len(SelectSeq(commits, IsRevertCommit)) * 100, Len(commits))
             ELSE <<0, 1>>
        ELSE IF Len(deploymentRuns) = 0
        THEN Rat(Len(SelectSeq(runs, IsFailedRun)) * 100, Len(runs))
        ELSE Rat(Len(SelectSeq(deploymentRuns, IsFailedRun)) * 100, Len(deploymentRuns))

IsFixCommit(c) == MentionsFix(c.message)
IsBugFixPR(pr) == pr.merged /\ IsBugFixTitle(pr.title)

\* the gaps the loop over fixCommits counts: 1 hour to 7 days
RECURSIVE RecoveryGaps(_)
RecoveryGaps(fixCommits) ==
    IF Len(fixCommits) <= 1 THEN <<>>
    ELSE LET timeDiff == Abs(fixCommits[1].date - fixCommits[2].date)
         IN  (IF timeDiff >= 1 /\ timeDiff <= 168 THEN <<timeDiff>> ELSE <<>>)
             \o RecoveryGaps(Tail(fixCommits))

RECURSIVE SumPRTime(_)
SumPRTime(prs) ==
    IF prs = <<>> THEN 0
    ELSE (Head(prs).merged_at - Head(prs).created_at) + SumPRTime(Tail(prs))

calculateMeanTimeToRecover(commits, pullRequests) ==
    LET fixCommits == SelectSeq(commits, IsFixCommit)
        gaps == RecoveryGaps(fixCommits)
        bugFixPRs == SelectSeq(pullRequests, IsBugFixPR)
    IN  IF Len(fixCommits) = 0 THEN <<12, 1>>
        ELSE IF Len(gaps) > 0 THEN Rat(SumInts(gaps), Len(gaps))
        ELSE IF Len(bugFixPRs) > 0
        THEN RMax(<<1, 1>>, Rat(SumPRTime(bugFixPRs), Len(bugFixPRs)))
        ELSE <<8, 1>>

calculateDeploymentScore(frequency, leadTime, changeFailureRate, meanTimeToRecover) ==
    LET frequencyScore == RMin(RMul(frequency, <<10, 1>>), <<30, 1>>)
        leadTimeScore == RMax(<<0, 1>>, RSub(<<30, 1>>, RDivInt(leadTime, 2)))
        failureScore == RMax(<<0, 1>>, RSub(<<25, 1>>, changeFailureRate))
        recoveryScore == RMax(<<0, 1>>, RSub(<<15, 1>>, RDivInt(meanTimeToRecover, 2)))
    IN  Floor(RAdd(RAdd(frequencyScore, leadTimeScore),
                   RAdd(failureScore, recoveryScore)))

generateDeploymentRecommendations(frequency, leadTime, changeFailureRate, meanTimeToRecover) ==
    LET r1 == IF RLess(frequency, <<1, 1>>) THEN <<"frequency">> ELSE <<>>
        r2 == IF RLess(<<24, 1>>, leadTime) THEN <<"lead-time">> ELSE <<>>
        r3 == IF RLess(<<10, 1>>, changeFailureRate) THEN <<"failure-rate">> ELSE <<>>
        r4 == IF RLess(<<12, 1>>, meanTimeToRecover) THEN <<"recovery">> ELSE <<>>
        specific == r1 \o r2 \o r3 \o r4
    IN  IF Len(specific) < 2 THEN specific \o <<"flags", "iac">> ELSE specific

\* analyzeDeploymentMetrics once its four fetches returned.
DeploymentMetricsOf(workflowRuns, releases, pullRequests, commits) ==
    LET frequency == calculateDeploymentFrequency(releases, workflowRuns)
        leadTime == calculateLeadTime(pullRequests, releases, commits)
        changeFailureRate == calculateChangeFailureRate(workflowRuns, commits)
        meanTimeToRecover == calculateMeanTimeToRecover(commits, pullRequests)
    IN  [frequency |-> ToFixed2(frequency),
         leadTime |-> Round(leadTime),
         changeFailureRate |-> ToFixed2(changeFailureRate),
         meanTimeToRecover |-> Round(meanTimeToRecover),
         score |-> calculateDeploymentScore(frequency, leadTime, changeFailureRate,
                                            meanTimeToRecover),
         recommendations |-> generateDeploymentRecommendations(
             frequency, leadTime, changeFailureRate, meanTimeToRecover)]


(***************************************************************************)
(* The forge's answers.  A response is an HTTP status; a 403 may carry the *)
(* message "API rate limit exceeded" and the x-ratelimit-* headers.        *)
(* Header texts are decimal numerals, written as sequences of digits.      *)
(***************************************************************************)
NoHeader == [has |-> FALSE, text |-> <<>>]
Header(digits) == [has |-> TRUE, text |-> digits]
NoHeaders == [reset |-> NoHeader, limit |-> NoHeader, remaining |-> NoHeader]

\* parseInt(String(h)) of a decimal numeral
RECURSIVE ParseInt(_)
ParseInt(digits) ==
    IF digits = <<>> THEN 0
    ELSE 10 * ParseInt(SubSeq(digits, 1, Len(digits) - 1)) + digits[Len(digits)]

\* the header sets a rate-limit answer may carry: none; all three, the quota used up;
\* all three, one request left; the reset time alone
RateLimitHeaders ==
    { NoHeaders,
      [reset |-> Header(<<4, 6, 8, 0, 0>>), limit |-> Header(<<5, 0, 0, 0>>),
       remaining |-> Header(<<0>>)],
      [reset |-> Header(<<4, 6, 8, 0, 0>>), limit |-> Header(<<5, 0, 0, 0>>),
       remaining |-> Header(<<1>>)],
      [reset |-> Header(<<4, 6, 8, 0, 0>>), limit |-> NoHeader, remaining |-> NoHeader] }

Ok == [status |-> 200, rateLimit |-> FALSE, headers |-> NoHeaders]
NotFound == [status |-> 404, rateLimit |-> FALSE, headers |-> NoHeaders]
Refusals ==
    { [status |-> st, rateLimit |-> FALSE, headers |-> NoHeaders] : st \in {401, 403, 500} }
RateLimitAnswers ==
    { [status |-> 403, rateLimit |-> TRUE, headers |-> h] : h \in RateLimitHeaders }
Faults == {NotFound} \cup Refusals \cup RateLimitAnswers

\* What the forge says when nothing goes wrong: the resource, or 404 when there is none.
Natural(exists) == IF exists THEN Ok ELSE NotFound

\* The forge leaves the request unanswered: no response, no transport error.
Silent == [status |-> 0, rateLimit |-> FALSE, headers |-> NoHeaders]

\* The responses the forge may give at one call site; none when it stays silent there:
\* octokit.request is given no timeout and no abort signal, so its promise stays pending.
Answers(site, exists) ==
    IF plan.live THEN {Natural(exists)} \cup Faults
    ELSE IF plan.site = site THEN {plan.response} \ {Silent}
    ELSE {Natural(exists)}

(***************************************************************************)
(* Forge Client: GitHubService.  Every operation maps the response of its  *)
(* one request to what the operation does: return a value or throw.        *)
(***************************************************************************)
MsPerHour == 3600000

\* the operations of IGitHubService
ForgeOperations ==
    {"getRepository", "getCommits", "getLanguages", "getContributors", "getFileContent",
     "getWorkflowRuns", "getPullRequests", "getIssues", "getReleases",
     "getDirectoryContents", "getCodeFrequencyStats", "getCommitActivity"}

\* a client whose getIssues files an issue where it should list them
RouteOf_filing(op) ==
    IF op = "getIssues" THEN [verb |-> "POST", path |-> "/repos/{owner}/{repo}/issues"]
    ELSE [verb |-> "GET", path |-> "/repos/{owner}/{repo}"]

\* the route each operation hands to octokit.request: verb and path template
RouteOf(op) ==
    CASE op = "getRepository" -> [verb |-> "GET", path |-> "/repos/{owner}/{repo}"]
      [] op = "getCommits" -> [verb |-> "GET", path |-> "/repos/{owner}/{repo}/commits"]
      [] op = "getLanguages" -> [verb |-> "GET", path |-> "/repos/{owner}/{repo}/languages"]
      [] op = "getContributors" ->
             [verb |-> "GET", path |-> "/repos/{owner}/{repo}/contributors"]
      [] op = "getFileContent" ->
             [verb |-> "GET", path |-> "/repos/{owner}/{repo}/contents/{path}"]
      [] op = "getWorkflowRuns" ->
             [verb |-> "GET", path |-> "/repos/{owner}/{repo}/actions/runs"]
      [] op = "getPullRequests" -> [verb |-> "GET", path |-> "/repos/{owner}/{repo}/pulls"]
      [] op = "getIssues" -> [verb |-> "GET", path |-> "/repos/{owner}/{repo}/issues"]
      [] op = "getReleases" -> [verb |-> "GET", path |-> "/repos/{owner}/{repo}/releases"]
      [] op = "getDirectoryContents" ->
             [verb |-> "GET", path |-> "/repos/{owner}/{repo}/contents/{path}"]
      [] op = "getCodeFrequencyStats" ->
             [verb |-> "GET", path |-> "/repos/{owner}/{repo}/stats/code_frequency"]
      [] op = "getCommitActivity" ->
             [verb |-> "GET", path |-> "/repos/{owner}/{repo}/stats/commit_activity"]
NoError == [name |-> "none", status |-> 0, rateLimit |-> FALSE,
            resetTime |-> 0, limit |-> 0, remaining |-> 0]

\* the error octokit.request rejects with for a non-2xx response
RequestError(resp) ==
    [name |-> "HttpError", status |-> resp.status, rateLimit |-> resp.rateLimit,
     resetTime |-> 0, limit |-> 0, remaining |-> 0]

\* class GitHubRateLimitError; resetTime is a Date, held in milliseconds
GitHubRateLimitError(resetTime, limit, remaining) ==
    [name |-> "GitHubRateLimitError", status |-> 0, rateLimit |-> TRUE,
     resetTime |-> resetTime, limit |-> limit, remaining |-> remaining]

\* what an operation did: returned a value (empty: no run, no list element) or threw
Return(v, empty) == [threw |-> FALSE, error |-> NoError, value |-> v, empty |-> empty]
Throw(e) == [threw |-> TRUE, error |-> e, value |-> <<>>, empty |-> FALSE]

\* a checkRateLimitError that reports an exhausted quota whatever the header says
RemainingOf_exhausted(headers) == 0

\* the remaining quota checkRateLimitError reports
RemainingOf(headers) ==
    IF headers.remaining.has THEN ParseInt(headers.remaining.text) ELSE 0

\* checkRateLimitError: the error it throws for the error it is given
checkRateLimitError(resp) ==
    IF resp.status = 403 /\ resp.rateLimit
    THEN LET headers == resp.headers
             resetTimestamp == IF headers.reset.has
                               THEN ParseInt(headers.reset.text) * 1000
                               ELSE now * MsPerHour + 3600000
             limit == IF headers.limit.has THEN ParseInt(headers.limit.text) ELSE 60
         IN  GitHubRateLimitError(resetTimestamp, limit, RemainingOf(headers))
    ELSE RequestError(resp)

getRepository(resp, data) ==
    IF resp.status = 200 THEN Return(data, FALSE) ELSE Throw(checkRateLimitError(resp))

getCommits(resp, data) ==
    IF resp.status = 200 THEN Return(data, data = <<>>) ELSE Throw(RequestError(resp))

getLanguages(resp, data) ==
    IF resp.status = 200 THEN Return(data, FALSE) ELSE Throw(RequestError(resp))

getReleases(resp, data) ==
    IF resp.status = 200 THEN Return(data, data = <<>>) ELSE Throw(RequestError(resp))

\* a getFileContent that answers a missing path with the (empty) content
getFileContent_lenient(resp, data) ==
    IF resp.status \in {200, 404} THEN Return(data, FALSE) ELSE Throw(RequestError(resp))

getFileContent(resp, data) ==
    IF resp.status = 200 THEN Return(data, FALSE) ELSE Throw(RequestError(resp))

NoRuns == [workflow_runs |-> <<>>, total_count |-> 0]

getWorkflowRuns(resp, data) ==
    IF resp.status = 200 THEN Return(data, data = NoRuns)
    ELSE IF resp.status \in {401, 403} /\ ~hasAuth THEN Return(NoRuns, TRUE)
    ELSE Throw(RequestError(resp))

\* a getPullRequests that returns the empty list on 401/403 with a token, too
getPullRequests_tokenblind(resp, data) ==
    IF resp.status = 200 THEN Return(data, data = <<>>)
    ELSE IF resp.status \in {401, 403} THEN Return(<<>>, TRUE)
    ELSE Throw(RequestError(resp))

getPullRequests(resp, data) ==
    IF resp.status = 200 THEN Return(data, data = <<>>)
    ELSE IF resp.status \in {401, 403} /\ ~hasAuth THEN Return(<<>>, TRUE)
    ELSE Throw(RequestError(resp))

getIssues(resp, data) ==
    IF resp.status = 200 THEN Return(data, data = <<>>)
    ELSE IF resp.status \in {401, 403} /\ ~hasAuth THEN Return(<<>>, TRUE)
    ELSE Throw(RequestError(resp))

getDirectoryContents(resp, data) ==
    IF resp.status = 200 THEN Return(data, data = <<>>) ELSE Return(<<>>, TRUE)


(***************************************************************************)
(* What the forge holds: the repositories the model is run against.        *)
(***************************************************************************)
Commit(m, d) == [message |-> m, date |-> d]
MergedPR(title, created, merged, comments, reviews) ==
    [state |-> "closed", merged |-> TRUE, merged_at |-> merged, created_at |-> created,
     title |-> title, comments |-> comments, review_comments |-> reviews]
UnmergedPR(state, title, created, comments) ==
    [state |-> state, merged |-> FALSE, merged_at |-> 0, created_at |-> created,
     title |-> title, comments |-> comments, review_comments |-> 0]
Release(d) == [published_at |-> d]
WorkflowRun(n, c, e) == [name |-> n, conclusion |-> c, event |-> e]
Runs(rs) == [workflow_runs |-> rs, total_count |-> Len(rs)]

ManifestPaths == {"package.json", "requirements.txt", "Gemfile", "composer.json",
                  "pom.xml", "build.gradle", "Cargo.toml"}
depFiles == <<"Gemfile", "composer.json", "pom.xml", "build.gradle", "Cargo.toml">>

NoFile == [exists |-> FALSE, valid |-> FALSE, dependencies |-> 0,
           devDependencies |-> 0, testScript |-> FALSE]
\* a manifest that is there; for package.json: whether JSON.parse accepts it, the number
\* of keys of dependencies and devDependencies, whether it mentions "test" or a test runner
File(valid, deps, devDeps, test) ==
    [exists |-> TRUE, valid |-> valid, dependencies |-> deps,
     devDependencies |-> devDeps, testScript |-> test]
Files(present) == [p \in ManifestPaths |-> IF p \in DOMAIN present THEN present[p] ELSE NoFile]

NoDirectory == [exists |-> FALSE, entries |-> <<>>]
Directory(es) == [exists |-> TRUE, entries |-> es]

\* an actively maintained JavaScript application
MatureApp ==
    [repository |-> [size |-> 1000, created_at |-> 0 - 9588],
     languages |-> [l \in {"JavaScript", "TypeScript"} |-> 5000],
     commits |-> <<Commit(MsgFeat, 0 - 10), Commit(MsgFix, 0 - 40), Commit(MsgFeat, 0 - 100)>>,
     pulls |-> <<MergedPR(TitleFix, 0 - 80, 0 - 60, 2, 1),
                 UnmergedPR("open", TitleFeature, 0 - 30, 0)>>,
     issues |-> <<"bug">>,
     releases |-> <<Release(0 - 20), Release(0 - 500)>>,
     runs |-> Runs(<<WorkflowRun(RunDeploy, "success", "push"),
                     WorkflowRun(RunCI, "failure", "push")>>),
     root |-> Directory(<<"src", "tests", "jest.config.js", ".github", "README.md">>),
     workflows |-> Directory(<<"ci.yml", "deploy.yml">>),
     files |-> Files([p \in {"package.json"} |-> File(TRUE, 20, 10, TRUE)])]

\* a repository created a moment ago, with nothing in it
EmptyRepo ==
    [repository |-> [size |-> 0, created_at |-> 12],
     languages |-> <<>>,
     commits |-> <<>>, pulls |-> <<>>, issues |-> <<>>, releases |-> <<>>,
     runs |-> Runs(<<>>),
     root |-> Directory(<<>>),
     workflows |-> NoDirectory,
     files |-> Files(<<>>)]

\* a five-year-old polyglot code base with careless history
LegacyRepo ==
    [repository |-> [size |-> 25, created_at |-> 0 - 43812],
     languages |-> [l \in {"Python", "Go", "Ruby", "Shell", "C", "Java"} |-> 700],
     commits |-> <<Commit(MsgEmpty, 0 - 5), Commit(MsgWip, 0 - 6)>>,
     pulls |-> <<UnmergedPR("closed", TitleFeature, 0 - 900, 0)>>,
     issues |-> <<"bug", "question">>,
     releases |-> <<>>,
     runs |-> Runs(<<WorkflowRun(RunDeploy, "failure", "push")>>),
     root |-> Directory(<<"src">>),
     workflows |-> NoDirectory,
     files |-> Files([p \in {"requirements.txt", "Gemfile", "pom.xml"} |->
                        File(FALSE, 0, 0, FALSE)])]

\* size 1000 KB, created 400 days ago, no release, no run, every commit "fix: correct bug"
FixOnlyRepo ==
    [repository |-> [size |-> 1000, created_at |-> 0 - 9588],
     languages |-> [l \in {"Rust"} |-> 9000],
     commits |-> <<Commit(MsgFix, 0 - 1), Commit(MsgFix, 0 - 25), Commit(MsgFix, 0 - 49)>>,
     pulls |-> <<>>, issues |-> <<>>, releases |-> <<>>,
     runs |-> Runs(<<>>),
     root |-> Directory(<<"src", "README.md">>),
     workflows |-> NoDirectory,
     files |-> Files([p \in {"Cargo.toml"} |-> File(FALSE, 0, 0, FALSE)])]

\* several languages, a package.json JSON.parse rejects, hotfixes and reverts
PolyglotApp ==
    [repository |-> [size |-> 333, created_at |-> 0 - 2000],
     languages |-> [l \in {"TypeScript", "Python", "Go", "Shell", "CSS"} |->
                      IF l = "CSS" THEN 0 ELSE 100],
     commits |-> <<Commit(MsgHotfix, 0 - 2), Commit(MsgRevert, 0 - 3),
                   Commit(MsgHotfix, 0 - 30)>>,
     pulls |-> <<MergedPR(TitleFix, 0 - 50, 0 - 45, 0, 0),
                 MergedPR(TitleFeature, 0 - 1000, 0 - 990, 0, 3)>>,
     issues |-> <<>>,
     releases |-> <<Release(0 - 40), Release(0 - 800)>>,
     runs |-> Runs(<<WorkflowRun(RunCI, "success", "push"),
                     WorkflowRun(RunCI, "failure", "pull_request")>>),
     root |-> Directory(<<"tests", "README.md">>),
     workflows |-> Directory(<<"ci.yml">>),
     files |-> Files([p \in {"package.json", "requirements.txt", "Cargo.toml"} |->
                        IF p = "package.json" THEN File(FALSE, 0, 0, TRUE)
                        ELSE File(FALSE, 0, 0, FALSE)])]

\* six years old, eleven languages, every test signal, a large package.json
SprawlingRepo ==
    [repository |-> [size |-> 90000, created_at |-> Jan2020],
     languages |-> [l \in {"JavaScript", "TypeScript", "Python", "Go", "Ruby", "Shell",
                           "C", "Java", "CSS", "HTML", "Rust"} |-> 100],
     commits |-> <<Commit(MsgDocs, 0 - 3), Commit(MsgWip, 0 - 90)>>,
     pulls |-> <<MergedPR(TitleFeature, 0 - 700, 0 - 100, 4, 2)>>,
     issues |-> <<"bug">>,
     releases |-> <<Release(0 - 50)>>,
     runs |-> Runs(<<WorkflowRun(RunDeploy, "success", "push"),
                     WorkflowRun(RunDeploy, "failure", "push")>>),
     root |-> Directory(<<"src", "tests", "__tests__", "cypress", "coverage",
                          "jest.config.js", ".github">>),
     workflows |-> Directory(<<"ci.yml">>),
     files |-> Files([p \in {"package.json", "requirements.txt", "pom.xml"} |->
                        IF p = "package.json" THEN File(TRUE, 100, 50, TRUE)
                        ELSE File(FALSE, 0, 0, FALSE)])]

Repositories == {MatureApp, EmptyRepo, LegacyRepo, FixOnlyRepo, PolyglotApp, SprawlingRepo}

\* the pull requests the forge lists for a state filter
IsClosed(pr) == pr.state = "closed"
PullsInState(state) ==
    IF state = "all" THEN forge.pulls ELSE SelectSeq(forge.pulls, IsClosed)


(***************************************************************************)
(* One invocation of generateHealthReport.                                 *)
(***************************************************************************)
\* Math.random() draws, in 30ths: benchmarkScore = floor(random * 30) + 50
RandomDraws == {0, 29}
Clocks == {12}

NoLocals ==
    [repository |-> [size |-> 0, created_at |-> 0],
     languages |-> <<>>, commits |-> <<>>, pullRequests |-> <<>>,
     complexityScore |-> <<0, 1>>, duplications |-> <<0, 1>>,
     testScore |-> 0, indicators |-> 0, testCoverage |-> 0,
     outdatedCount |-> 0, packageData |-> NoFile, depIndex |-> 0,
     workflowRuns |-> NoRuns, releases |-> <<>>]

NoSection == [score |-> 0 - 1]
NoReport ==
    [returned |-> FALSE, repository |-> [size |-> 0, created_at |-> 0],
     codeMetrics |-> NoSection, codeQuality |-> NoSection,
     technicalDebt |-> NoSection, deploymentMetrics |-> NoSection,
     overallScore |-> 0 - 1, benchmarkScore |-> 0 - 1, generatedAt |-> 0]

NoCall == [op |-> "none", site |-> "none", route |-> [verb |-> "none", path |-> ""],
           status |-> 0, rateLimit |-> FALSE,
           headers |-> NoHeaders, threw |-> FALSE, error |-> NoError, empty |-> FALSE]

NoHistory ==
    [firstOp |-> "none",           \* the operation of the first request
     rateLimited |-> FALSE,        \* some request was answered 403 "API rate limit exceeded"
     afterRateLimit |-> FALSE,     \* a request was issued after such an answer
     fatalIgnored |-> FALSE,       \* a fetch failed fatally and the invocation went on
     clean |-> TRUE,               \* every answer so far: 200, or 404 to getFileContent
     probeMissing |-> FALSE,       \* some getFileContent probe was answered 404
     missingCounted |-> FALSE]     \* a file whose probe was answered 404 added to an estimate

GatedOps == {"getWorkflowRuns", "getPullRequests", "getIssues"}
ProbeOps == {"getFileContent", "getDirectoryContents"}

\* A failed fetch that the specification calls fatal: anything but a 404 on a file or
\* directory probe and a 401/403 on a privilege-gated endpoint without a token.
IsFatal(op, resp) ==
    /\ resp.status # 200
    /\ ~(op \in ProbeOps /\ resp.status = 404)
    /\ ~(op \in GatedOps /\ resp.status \in {401, 403} /\ ~hasAuth)

IsRateLimitAnswer(resp) == resp.status = 403 /\ resp.rateLimit

\* The bookkeeping of one request: op at the call site was answered resp and the client
\* did out; rejects: generateHealthReport rejects in this step; counted: this step added
\* to testScore or outdatedCount for a file whose getFileContent probe was answered 404.
Requested(op, site, resp, out, rejects, counted) ==
    /\ last' = [op |-> op, site |-> site, route |-> RouteOf(op), status |-> resp.status,
                rateLimit |-> resp.rateLimit,
                headers |-> IF out.threw /\ out.error.name = "GitHubRateLimitError"
                            THEN resp.headers ELSE NoHeaders,
                threw |-> out.threw, error |-> out.error,
                empty |-> out.empty]
    /\ hist' = [firstOp |-> IF hist.firstOp = "none" THEN op ELSE hist.firstOp,
                rateLimited |-> IF IsRateLimitAnswer(resp) THEN TRUE ELSE hist.rateLimited,
                afterRateLimit |-> IF hist.rateLimited THEN TRUE ELSE hist.afterRateLimit,
                fatalIgnored |-> IF IsFatal(op, resp) /\ ~rejects THEN TRUE
                                 ELSE hist.fatalIgnored,
                clean |-> IF resp.status = 200 THEN hist.clean
                          ELSE IF op = "getFileContent" /\ resp.status = 404 THEN hist.clean
                          ELSE FALSE,
                probeMissing |-> IF op = "getFileContent" /\ resp.status = 404 THEN TRUE
                                 ELSE hist.probeMissing,
                missingCounted |-> IF counted THEN TRUE ELSE hist.missingCounted]
    /\ UNCHANGED <<hasAuth, now, forge, plan, run, firstReport>>

\* generateHealthReport rejects with e: nothing of the invocation survives
Fail(e) ==
    /\ pc' = "failed"
    /\ thrown' = e
    /\ locals' = NoLocals
    /\ report' = NoReport

\* the invocation goes on to the await at next with locals l and report r
Continue(next, l, r) ==
    /\ pc' = next
    /\ locals' = l
    /\ report' = r
    /\ UNCHANGED thrown

\* an awaited call outside any try block: its error rejects generateHealthReport
Await(op, site, resp, out) == Requested(op, site, resp, out, out.threw, FALSE)

\* an awaited call inside a try block whose catch goes on with a default
Guarded(op, site, resp, out) == Requested(op, site, resp, out, FALSE, FALSE)

Fresh ==
    /\ pc = "gHR_getRepository"
    /\ last = NoCall
    /\ locals = NoLocals
    /\ report = NoReport
    /\ thrown = NoError
    /\ hist = NoHistory

LivePlan == [live |-> TRUE, site |-> "none", response |-> Ok]

Init ==
    /\ hasAuth \in BOOLEAN
    /\ now \in Clocks
    /\ forge \in Repositories
    /\ plan = LivePlan
    /\ run = 1
    /\ firstReport = NoReport
    /\ Fresh

\* languages.JavaScript || languages.TypeScript
HasNodeLanguage(languages) ==
    IF HasLanguage(languages, "JavaScript") THEN TRUE
    ELSE HasLanguage(languages, "TypeScript")

(***************************************************************************)
(* generateHealthReport and analyzeCodeMetrics, analyzeCodeQuality.        *)
(***************************************************************************)
\* generateHealthReport: const repository = await getRepository(owner, repo)
gHR_getRepository ==
    /\ pc = "gHR_getRepository"
    /\ \E resp \in Answers("gHR_getRepository", TRUE) :
         LET out == getRepository(resp, forge.repository) IN
         /\ Await("getRepository", "gHR_getRepository", resp, out)
         /\ IF out.threw THEN Fail(out.error)
            ELSE Continue("cm_getLanguages", locals,
                          [report EXCEPT !.repository = out.value])

\* analyzeCodeMetrics: const languages = await getLanguages(owner, repo)
cm_getLanguages ==
    /\ pc = "cm_getLanguages"
    /\ \E resp \in Answers("cm_getLanguages", TRUE) :
         LET out == getLanguages(resp, forge.languages) IN
         /\ Await("getLanguages", "cm_getLanguages", resp, out)
         /\ IF out.threw THEN Fail(out.error)
            ELSE Continue("cm_getRepository",
                          [locals EXCEPT !.languages = out.value], report)

\* analyzeCodeMetrics: const repository = await getRepository(owner, repo); the estimate
cm_getRepository ==
    /\ pc = "cm_getRepository"
    /\ \E resp \in Answers("cm_getRepository", TRUE) :
         LET out == getRepository(resp, forge.repository) IN
         /\ Await("getRepository", "cm_getRepository", resp, out)
         /\ IF out.threw THEN Fail(out.error)
            ELSE Continue("cq_getCommits", NoLocals,
                          [report EXCEPT !.codeMetrics =
                               CodeMetricsOf(out.value, locals.languages)])

\* analyzeCodeQuality: const commits = await getCommits(owner, repo); the score
cq_getCommits ==
    /\ pc = "cq_getCommits"
    /\ \E resp \in Answers("cq_getCommits", TRUE) :
         LET out == getCommits(resp, forge.commits) IN
         /\ Await("getCommits", "cq_getCommits", resp, out)
         /\ IF out.threw THEN Fail(out.error)
            ELSE Continue("td_getRepository", locals,
                          [report EXCEPT !.codeQuality = CodeQualityOf(out.value)])


(***************************************************************************)
(* analyzeTechnicalDebt.                                                   *)
(***************************************************************************)
\* analyzeTechnicalDebt: await getRepository(owner, repo), its value unused
td_getRepository ==
    /\ pc = "td_getRepository"
    /\ \E resp \in Answers("td_getRepository", TRUE) :
         LET out == getRepository(resp, forge.repository) IN
         /\ Await("getRepository", "td_getRepository", resp, out)
         /\ IF out.threw THEN Fail(out.error)
            ELSE Continue("td_getCommits", locals, report)

\* analyzeTechnicalDebt: const commits = await getCommits(owner, repo, 100)
td_getCommits ==
    /\ pc = "td_getCommits"
    /\ \E resp \in Answers("td_getCommits", TRUE) :
         LET out == getCommits(resp, forge.commits) IN
         /\ Await("getCommits", "td_getCommits", resp, out)
         /\ IF out.threw THEN Fail(out.error)
            ELSE Continue("td_getPullRequests",
                          [locals EXCEPT !.commits = out.value], report)

\* analyzeTechnicalDebt: const pullRequests = await getPullRequests(owner, repo, 'all', 50)
td_getPullRequests ==
    /\ pc = "td_getPullRequests"
    /\ \E resp \in Answers("td_getPullRequests", TRUE) :
         LET out == getPullRequests(resp, PullsInState("all")) IN
         /\ Await("getPullRequests", "td_getPullRequests", resp, out)
         /\ IF out.threw THEN Fail(out.error)
            ELSE Continue("td_getIssues",
                          [locals EXCEPT !.pullRequests = out.value], report)

\* analyzeTechnicalDebt: await getIssues(owner, repo, 'all', 100); calculateComplexityScore
td_getIssues ==
    /\ pc = "td_getIssues"
    /\ \E resp \in Answers("td_getIssues", TRUE) :
         LET out == getIssues(resp, forge.issues) IN
         /\ Await("getIssues", "td_getIssues", resp, out)
         /\ IF out.threw THEN Fail(out.error)
            ELSE Continue("dup_getLanguages",
                          [NoLocals EXCEPT !.complexityScore =
                               calculateComplexityScore(locals.commits,
                                                        locals.pullRequests)],
                          report)

\* calculateDuplications: const languages = await getLanguages(owner, repo); catch: 15
dup_getLanguages ==
    /\ pc = "dup_getLanguages"
    /\ \E resp \in Answers("dup_getLanguages", TRUE) :
         LET out == getLanguages(resp, forge.languages) IN
         /\ Guarded("getLanguages", "dup_getLanguages", resp, out)
         /\ IF out.threw
            THEN Continue("cov_getRoot", [locals EXCEPT !.duplications = <<15, 1>>], report)
            ELSE Continue("dup_getRepository",
                          [locals EXCEPT !.languages = out.value], report)

\* calculateDuplications: await getRepository(owner, repo); the estimate; catch: 15
dup_getRepository ==
    /\ pc = "dup_getRepository"
    /\ \E resp \in Answers("dup_getRepository", TRUE) :
         LET out == getRepository(resp, forge.repository) IN
         /\ Guarded("getRepository", "dup_getRepository", resp, out)
         /\ Continue("cov_getRoot",
                     [locals EXCEPT !.languages = <<>>,
                                    !.duplications =
                                        IF out.threw THEN <<15, 1>>
                                        ELSE DuplicationsOf(locals.languages, out.value)],
                     report)

\* calculateTestCoverage: const rootContents = await getDirectoryContents(owner, repo)
cov_getRoot ==
    /\ pc = "cov_getRoot"
    /\ \E resp \in Answers("cov_getRoot", forge.root.exists) :
         LET out == getDirectoryContents(resp, forge.root.entries) IN
         /\ Guarded("getDirectoryContents", "cov_getRoot", resp, out)
         /\ Continue("cov_getLanguages",
                     [locals EXCEPT !.testScore = RootTestScore(out.value),
                                    !.indicators =
                                        Len(SelectSeq(out.value, MatchesTestPattern))],
                     report)

\* calculateTestCoverage: const languages = await getLanguages(owner, repo); catch: 25
cov_getLanguages ==
    /\ pc = "cov_getLanguages"
    /\ \E resp \in Answers("cov_getLanguages", TRUE) :
         LET out == getLanguages(resp, forge.languages) IN
         /\ Guarded("getLanguages", "cov_getLanguages", resp, out)
         /\ IF out.threw
            THEN Continue("dep_getLanguages",
                          [locals EXCEPT !.testScore = 0, !.indicators = 0,
                                         !.testCoverage = 25], report)
            ELSE IF HasNodeLanguage(out.value)
            THEN Continue("cov_getPackageJson", locals, report)
            ELSE Continue("cov_getWorkflows", locals, report)

\* calculateTestCoverage: await getFileContent(owner, repo, 'package.json'); any error swallowed
cov_getPackageJson ==
    /\ pc = "cov_getPackageJson"
    /\ \E resp \in Answers("cov_getPackageJson", forge.files["package.json"].exists) :
         LET out == getFileContent(resp, forge.files["package.json"]) IN
         /\ Requested("getFileContent", "cov_getPackageJson", resp, out, FALSE,
                      IF out.threw THEN FALSE
                      ELSE IF out.value.testScript THEN resp.status = 404 ELSE FALSE)
         /\ IF ~out.threw /\ out.value.testScript
            THEN Continue("cov_getWorkflows",
                          [locals EXCEPT !.testScore = @ + 20, !.indicators = @ + 1],
                          report)
            ELSE Continue("cov_getWorkflows", locals, report)

\* calculateTestCoverage: await getDirectoryContents(owner, repo, '.github/workflows'); the result
cov_getWorkflows ==
    /\ pc = "cov_getWorkflows"
    /\ \E resp \in Answers("cov_getWorkflows", forge.workflows.exists) :
         LET out == getDirectoryContents(resp, forge.workflows.entries) IN
         /\ Guarded("getDirectoryContents", "cov_getWorkflows", resp, out)
         /\ LET testScore == IF Len(out.value) > 0 THEN locals.testScore + 10
                             ELSE locals.testScore
                indicators == IF Len(out.value) > 0 THEN locals.indicators + 1
                              ELSE locals.indicators
            IN  Continue("dep_getLanguages",
                         [locals EXCEPT !.testScore = 0, !.indicators = 0,
                                        !.testCoverage =
                                            TestCoverageOf(testScore, indicators)],
                         report)

(***************************************************************************)
(* calculateOutdatedDependencies, then the score of analyzeTechnicalDebt.  *)
(***************************************************************************)
\* return Math.min(outdatedCount, 20)
\* calculateOutdatedDependencies returning its count without the cap
OutdatedDependenciesOf_uncapped(outdatedCount) == outdatedCount

OutdatedDependenciesOf(outdatedCount) == IF outdatedCount < 20 THEN outdatedCount ELSE 20

\* analyzeTechnicalDebt returns: its locals l, the count calculateOutdatedDependencies gave
FinishTechnicalDebt(l, outdatedDependencies) ==
    Continue("dm_getWorkflowRuns", NoLocals,
             [report EXCEPT !.technicalDebt =
                  TechnicalDebtOf(l.complexityScore, l.duplications, l.testCoverage,
                                  outdatedDependencies)])

\* for (const file of depFiles): the first iteration
StartDepFiles(l) ==
    Continue("dep_getDepFile", [l EXCEPT !.languages = <<>>, !.depIndex = 1], report)

\* the next iteration of the loop over depFiles, or the return after the last one
NextDepFile(l) ==
    IF l.depIndex < Len(depFiles)
    THEN Continue("dep_getDepFile", [l EXCEPT !.depIndex = @ + 1], report)
    ELSE FinishTechnicalDebt(l, OutdatedDependenciesOf(l.outdatedCount))

\* if (languages.Python) ... after the package.json block
AfterPackageJson(l) ==
    IF HasLanguage(l.languages, "Python")
    THEN Continue("dep_getRequirements", [l EXCEPT !.packageData = NoFile], report)
    ELSE StartDepFiles([l EXCEPT !.packageData = NoFile])

\* calculateOutdatedDependencies: const languages = await getLanguages(owner, repo); catch: 2
dep_getLanguages ==
    /\ pc = "dep_getLanguages"
    /\ \E resp \in Answers("dep_getLanguages", TRUE) :
         LET out == getLanguages(resp, forge.languages) IN
         /\ Guarded("getLanguages", "dep_getLanguages", resp, out)
         /\ IF out.threw THEN FinishTechnicalDebt(locals, 2)
            ELSE IF HasNodeLanguage(out.value)
            THEN Continue("dep_getPackageJson",
                          [locals EXCEPT !.languages = out.value], report)
            ELSE AfterPackageJson([locals EXCEPT !.languages = out.value])

\* calculateOutdatedDependencies: await getFileContent(.., 'package.json'); JSON.parse; errors swallowed
dep_getPackageJson ==
    /\ pc = "dep_getPackageJson"
    /\ \E resp \in Answers("dep_getPackageJson", forge.files["package.json"].exists) :
         LET out == getFileContent(resp, forge.files["package.json"]) IN
         /\ Guarded("getFileContent", "dep_getPackageJson", resp, out)
         /\ IF ~out.threw /\ out.value.valid
            THEN Continue("dep_getRepositoryForPackageJson",
                          [locals EXCEPT !.packageData = out.value], report)
            ELSE AfterPackageJson(locals)

\* calculateOutdatedDependencies: await getRepository(..) for the package.json estimate; errors swallowed
dep_getRepositoryForPackageJson ==
    /\ pc = "dep_getRepositoryForPackageJson"
    /\ \E resp \in Answers("dep_getRepositoryForPackageJson", TRUE) :
         LET out == getRepository(resp, forge.repository) IN
         /\ Requested("getRepository", "dep_getRepositoryForPackageJson", resp, out, FALSE,
                      IF out.threw THEN FALSE ELSE last.status = 404)
         /\ IF out.threw THEN AfterPackageJson(locals)
            ELSE AfterPackageJson(
                     [locals EXCEPT !.outdatedCount =
                          @ + PackageJsonOutdated(locals.packageData, out.value)])

\* calculateOutdatedDependencies: await getFileContent(.., 'requirements.txt'); errors swallowed
dep_getRequirements ==
    /\ pc = "dep_getRequirements"
    /\ \E resp \in Answers("dep_getRequirements", forge.files["requirements.txt"].exists) :
         LET out == getFileContent(resp, forge.files["requirements.txt"]) IN
         /\ Guarded("getFileContent", "dep_getRequirements", resp, out)
         /\ IF out.threw THEN StartDepFiles(locals)
            ELSE Continue("dep_getRepositoryForRequirements", locals, report)

\* calculateOutdatedDependencies: await getRepository(..) for the requirements.txt estimate
dep_getRepositoryForRequirements ==
    /\ pc = "dep_getRepositoryForRequirements"
    /\ \E resp \in Answers("dep_getRepositoryForRequirements", TRUE) :
         LET out == getRepository(resp, forge.repository) IN
         /\ Requested("getRepository", "dep_getRepositoryForRequirements", resp, out, FALSE,
                      IF out.threw THEN FALSE ELSE last.status = 404)
         /\ IF out.threw THEN StartDepFiles(locals)
            ELSE StartDepFiles([locals EXCEPT !.outdatedCount =
                                    @ + AgeOutdated(out.value, 4)])

\* calculateOutdatedDependencies: await getFileContent(.., file) in the loop; errors swallowed
dep_getDepFile ==
    /\ pc = "dep_getDepFile"
    /\ \E resp \in Answers("dep_getDepFile", forge.files[depFiles[locals.depIndex]].exists) :
         LET out == getFileContent(resp, forge.files[depFiles[locals.depIndex]]) IN
         /\ Guarded("getFileContent", "dep_getDepFile", resp, out)
         /\ IF out.threw THEN NextDepFile(locals)
            ELSE Continue("dep_getRepositoryForDepFile", locals, report)

\* calculateOutdatedDependencies: await getRepository(..) in the loop, then break; errors swallowed
dep_getRepositoryForDepFile ==
    /\ pc = "dep_getRepositoryForDepFile"
    /\ \E resp \in Answers("dep_getRepositoryForDepFile", TRUE) :
         LET out == getRepository(resp, forge.repository) IN
         /\ Requested("getRepository", "dep_getRepositoryForDepFile", resp, out, FALSE,
                      IF out.threw THEN FALSE ELSE last.status = 404)
         /\ IF out.threw THEN NextDepFile(locals)
            ELSE FinishTechnicalDebt(
                     locals,
                     OutdatedDependenciesOf(locals.outdatedCount
                                            + AgeOutdated(out.value, 6)))

(***************************************************************************)
(* analyzeDeploymentMetrics and the end of generateHealthReport.           *)
(***************************************************************************)
\* analyzeDeploymentMetrics: const workflowRuns = await getWorkflowRuns(owner, repo)
dm_getWorkflowRuns ==
    /\ pc = "dm_getWorkflowRuns"
    /\ \E resp \in Answers("dm_getWorkflowRuns", TRUE) :
         LET out == getWorkflowRuns(resp, forge.runs) IN
         /\ Await("getWorkflowRuns", "dm_getWorkflowRuns", resp, out)
         /\ IF out.threw THEN Fail(out.error)
            ELSE Continue("dm_getReleases",
                          [locals EXCEPT !.workflowRuns = out.value], report)

\* analyzeDeploymentMetrics: const releases = await getReleases(owner, repo)
dm_getReleases ==
    /\ pc = "dm_getReleases"
    /\ \E resp \in Answers("dm_getReleases", TRUE) :
         LET out == getReleases(resp, forge.releases) IN
         /\ Await("getReleases", "dm_getReleases", resp, out)
         /\ IF out.threw THEN Fail(out.error)
            ELSE Continue("dm_getPullRequests",
                          [locals EXCEPT !.releases = out.value], report)

\* analyzeDeploymentMetrics: const pullRequests = await getPullRequests(owner, repo, 'closed', 50)
dm_getPullRequests ==
    /\ pc = "dm_getPullRequests"
    /\ \E resp \in Answers("dm_getPullRequests", TRUE) :
         LET out == getPullRequests(resp, PullsInState("closed")) IN
         /\ Await("getPullRequests", "dm_getPullRequests", resp, out)
         /\ IF out.threw THEN Fail(out.error)
            ELSE Continue("dm_getCommits",
                          [locals EXCEPT !.pullRequests = out.value], report)

\* overallScore of generateHealthReport
\* the overall score as the plain mean of the three section scores
OverallScoreOf_mean(codeQuality, technicalDebt, deploymentMetrics) ==
    (codeQuality.score + technicalDebt.score + deploymentMetrics.score) \div 3

OverallScoreOf(codeQuality, technicalDebt, deploymentMetrics) ==
    Floor(RAdd(RAdd(RMul(<<codeQuality.score, 1>>, Rat(3, 10)),
                    RMul(<<technicalDebt.score, 1>>, Rat(4, 10))),
               RMul(<<deploymentMetrics.score, 1>>, Rat(3, 10))))

\* the value generateHealthReport returns, given the sections r and deploymentMetrics;
\* random: what Math.random() returns
HealthReportOf(r, deploymentMetrics, random) ==
    [returned |-> TRUE, repository |-> r.repository, codeMetrics |-> r.codeMetrics,
     codeQuality |-> r.codeQuality, technicalDebt |-> r.technicalDebt,
     deploymentMetrics |-> deploymentMetrics,
     overallScore |-> OverallScoreOf(r.codeQuality, r.technicalDebt, deploymentMetrics),
     benchmarkScore |-> Floor(RMul(random, <<30, 1>>)) + 50,
     generatedAt |-> now]

\* analyzeDeploymentMetrics: const commits = await getCommits(owner, repo, 100); the
\* metrics; then generateHealthReport computes the overall score and returns
dm_getCommits ==
    /\ pc = "dm_getCommits"
    /\ \E resp \in Answers("dm_getCommits", TRUE), draw \in RandomDraws :
         LET out == getCommits(resp, forge.commits) IN
         /\ Await("getCommits", "dm_getCommits", resp, out)
         /\ IF out.threw THEN Fail(out.error)
            ELSE /\ pc' = "done"
                 /\ locals' = NoLocals
                 /\ report' = HealthReportOf(
                        report,
                        DeploymentMetricsOf(locals.workflowRuns, locals.releases,
                                            locals.pullRequests, out.value),
                        Rat(draw, 30))
                 /\ UNCHANGED thrown

Next ==
    \/ gHR_getRepository
    \/ cm_getLanguages
    \/ cm_getRepository
    \/ cq_getCommits
    \/ td_getRepository
    \/ td_getCommits
    \/ td_getPullRequests
    \/ td_getIssues
    \/ dup_getLanguages
    \/ dup_getRepository
    \/ cov_getRoot
    \/ cov_getLanguages
    \/ cov_getPackageJson
    \/ cov_getWorkflows
    \/ dep_getLanguages
    \/ dep_getPackageJson
    \/ dep_getRepositoryForPackageJson
    \/ dep_getRequirements
    \/ dep_getRepositoryForRequirements
    \/ dep_getDepFile
    \/ dep_getRepositoryForDepFile
    \/ dm_getWorkflowRuns
    \/ dm_getReleases
    \/ dm_getPullRequests
    \/ dm_getCommits

Spec == Init /\ [][Next]_vars

(***************************************************************************)
(* The MVP copy of CodeAnalysisService (services/code-analysis-service.ts):*)
(* the same generateHealthReport, analyzeCodeMetrics and                   *)
(* analyzeCodeQuality; analyzeTechnicalDebt and analyzeDeploymentMetrics   *)
(* estimate with Math.random().                                            *)
(***************************************************************************)
\* analyzeTechnicalDebt of the MVP copy once getRepository and getCommits returned;
\* random1, random2: what its two Math.random() calls return
MvpTechnicalDebtOf(repository, commits, random1, random2) ==
    LET complexityScore == RSub(<<1, 1>>, analyzeCommitMessages(commits))
        repoAgeInDays == calculateRepositoryAge(repository.created_at)
        duplications == IF (repoAgeInDays \div 30) * 5 < 40
                        THEN (repoAgeInDays \div 30) * 5 ELSE 40
        testCoverage == Floor(RMul(random1, <<60, 1>>)) + 20
        outdatedDependencies == Floor(RMul(random2, <<8, 1>>))
        score == Floor(RSub(RSub(RSub(RSub(<<100, 1>>,
                     RMul(complexityScore, <<30, 1>>)),
                     Rat(duplications * 5, 10)),
                     Rat((100 - testCoverage) * 3, 10)),
                     <<outdatedDependencies * 5, 1>>))
    IN  [score |-> IF score < 0 THEN 0 ELSE score,
         metrics |-> [complexityScore |-> ToFixed2(complexityScore),
                      duplications |-> duplications,
                      testCoverage |-> testCoverage,
                      outdatedDependencies |-> outdatedDependencies],
         recommendations |-> generateTechnicalDebtRecommendations(
             [complexityScore |-> complexityScore, duplications |-> <<duplications, 1>>,
              testCoverage |-> testCoverage,
              outdatedDependencies |-> outdatedDependencies])]

\* analyzeDeploymentMetrics of the MVP copy once its three fetches returned;
\* random1..random3: what its three Math.random() calls return
MvpDeploymentMetricsOf(workflowRuns, repository, random1, random2, random3) ==
    LET totalRuns == workflowRuns.total_count
        repoAgeInDays == calculateRepositoryAge(repository.created_at)
        frequency == IF repoAgeInDays > 0 THEN Rat(totalRuns * 7, repoAgeInDays)
                     ELSE <<0, 1>>
        leadTime == Floor(RMul(random1, <<48, 1>>)) + 1
        changeFailureRate == Floor(RMul(random2, <<20, 1>>))
        meanTimeToRecover == Floor(RMul(random3, <<24, 1>>)) + 1
    IN  [frequency |-> ToFixed2(frequency),
         leadTime |-> leadTime,
         changeFailureRate |-> <<changeFailureRate, 1>>,
         meanTimeToRecover |-> meanTimeToRecover,
         score |-> calculateDeploymentScore(frequency, <<leadTime, 1>>,
                                            <<changeFailureRate, 1>>,
                                            <<meanTimeToRecover, 1>>),
         recommendations |-> generateDeploymentRecommendations(
             frequency, <<leadTime, 1>>, <<changeFailureRate, 1>>,
             <<meanTimeToRecover, 1>>)]

\* generateHealthReport: const repository = await getRepository(owner, repo)
mvp_gHR_getRepository ==
    /\ pc = "mvp_gHR_getRepository"
    /\ \E resp \in Answers("mvp_gHR_getRepository", TRUE) :
         LET out == getRepository(resp, forge.repository) IN
         /\ Await("getRepository", "mvp_gHR_getRepository", resp, out)
         /\ IF out.threw THEN Fail(out.error)
            ELSE Continue("mvp_cm_getLanguages", locals,
                          [report EXCEPT !.repository = out.value])

\* analyzeCodeMetrics: const languages = await getLanguages(owner, repo)
mvp_cm_getLanguages ==
    /\ pc = "mvp_cm_getLanguages"
    /\ \E resp \in Answers("mvp_cm_getLanguages", TRUE) :
         LET out == getLanguages(resp, forge.languages) IN
         /\ Await("getLanguages", "mvp_cm_getLanguages", resp, out)
         /\ IF out.threw THEN Fail(out.error)
            ELSE Continue("mvp_cm_getRepository",
                          [locals EXCEPT !.languages = out.value], report)

\* analyzeCodeMetrics: const repository = await getRepository(owner, repo); the estimate
mvp_cm_getRepository ==
    /\ pc = "mvp_cm_getRepository"
    /\ \E resp \in Answers("mvp_cm_getRepository", TRUE) :
         LET out == getRepository(resp, forge.repository) IN
         /\ Await("getRepository", "mvp_cm_getRepository", resp, out)
         /\ IF out.threw THEN Fail(out.error)
            ELSE Continue("mvp_cq_getCommits", NoLocals,
                          [report EXCEPT !.codeMetrics =
                               CodeMetricsOf(out.value, locals.languages)])

\* analyzeCodeQuality: const commits = await getCommits(owner, repo); the score
mvp_cq_getCommits ==
    /\ pc = "mvp_cq_getCommits"
    /\ \E resp \in Answers("mvp_cq_getCommits", TRUE) :
         LET out == getCommits(resp, forge.commits) IN
         /\ Await("getCommits", "mvp_cq_getCommits", resp, out)
         /\ IF out.threw THEN Fail(out.error)
            ELSE Continue("mvp_td_getRepository", locals,
                          [report EXCEPT !.codeQuality = CodeQualityOf(out.value)])

\* analyzeTechnicalDebt: const repository = await getRepository(owner, repo)
mvp_td_getRepository ==
    /\ pc = "mvp_td_getRepository"
    /\ \E resp \in Answers("mvp_td_getRepository", TRUE) :
         LET out == getRepository(resp, forge.repository) IN
         /\ Await("getRepository", "mvp_td_getRepository", resp, out)
         /\ IF out.threw THEN Fail(out.error)
            ELSE Continue("mvp_td_getCommits",
                          [locals EXCEPT !.repository = out.value], report)

\* analyzeTechnicalDebt: const commits = await getCommits(owner, repo); the estimates
mvp_td_getCommits ==
    /\ pc = "mvp_td_getCommits"
    /\ \E resp \in Answers("mvp_td_getCommits", TRUE), draw1, draw2 \in RandomDraws :
         LET out == getCommits(resp, forge.commits) IN
         /\ Await("getCommits", "mvp_td_getCommits", resp, out)
         /\ IF out.threw THEN Fail(out.error)
            ELSE Continue("mvp_dm_getWorkflowRuns", NoLocals,
                          [report EXCEPT !.technicalDebt =
                               MvpTechnicalDebtOf(locals.repository, out.value,
                                                  Rat(draw1, 30), Rat(draw2, 30))])

\* analyzeDeploymentMetrics: const workflowRuns = await getWorkflowRuns(owner, repo)
mvp_dm_getWorkflowRuns ==
    /\ pc = "mvp_dm_getWorkflowRuns"
    /\ \E resp \in Answers("mvp_dm_getWorkflowRuns", TRUE) :
         LET out == getWorkflowRuns(resp, forge.runs) IN
         /\ Await("getWorkflowRuns", "mvp_dm_getWorkflowRuns", resp, out)
         /\ IF out.threw THEN Fail(out.error)
            ELSE Continue("mvp_dm_getCommits",
                          [locals EXCEPT !.workflowRuns = out.value], report)

\* analyzeDeploymentMetrics: const commits = await getCommits(owner, repo), its value unused
mvp_dm_getCommits ==
    /\ pc = "mvp_dm_getCommits"
    /\ \E resp \in Answers("mvp_dm_getCommits", TRUE) :
         LET out == getCommits(resp, forge.commits) IN
         /\ Await("getCommits", "mvp_dm_getCommits", resp, out)
         /\ IF out.threw THEN Fail(out.error)
            ELSE Continue("mvp_dm_getRepository", locals, report)

\* analyzeDeploymentMetrics: const repository = await getRepository(owner, repo); the
\* metrics; then generateHealthReport computes the overall score and returns
mvp_dm_getRepository ==
    /\ pc = "mvp_dm_getRepository"
    /\ \E resp \in Answers("mvp_dm_getRepository", TRUE),
          draw1, draw2, draw3, draw4 \in RandomDraws :
         LET out == getRepository(resp, forge.repository) IN
         /\ Await("getRepository", "mvp_dm_getRepository", resp, out)
         /\ IF out.threw THEN Fail(out.error)
            ELSE /\ pc' = "done"
                 /\ locals' = NoLocals
                 /\ report' = HealthReportOf(
                        report,
                        MvpDeploymentMetricsOf(locals.workflowRuns, out.value,
                                               Rat(draw1, 30), Rat(draw2, 30),
                                               Rat(draw3, 30)),
                        Rat(draw4, 30))
                 /\ UNCHANGED thrown


(***************************************************************************)
(* Two invocations, one after the other, against a forge that answers the  *)
(* second as it answered the first: every call site gets what the forge    *)
(* holds, except one site that gets one fixed fault.                       *)
(***************************************************************************)
PipelineSites ==
    {"gHR_getRepository", "cm_getLanguages", "cm_getRepository", "cq_getCommits",
     "td_getRepository", "td_getCommits", "td_getPullRequests", "td_getIssues",
     "dup_getLanguages", "dup_getRepository", "cov_getRoot", "cov_getLanguages",
     "cov_getPackageJson", "cov_getWorkflows", "dep_getLanguages", "dep_getPackageJson",
     "dep_getRepositoryForPackageJson", "dep_getRequirements",
     "dep_getRepositoryForRequirements", "dep_getDepFile", "dep_getRepositoryForDepFile",
     "dm_getWorkflowRuns", "dm_getReleases", "dm_getPullRequests", "dm_getCommits"}

MvpSites ==
    {"mvp_gHR_getRepository", "mvp_cm_getLanguages", "mvp_cm_getRepository",
     "mvp_cq_getCommits", "mvp_td_getRepository", "mvp_td_getCommits",
     "mvp_dm_getWorkflowRuns", "mvp_dm_getCommits", "mvp_dm_getRepository"}

FixedPlans(sites) ==
    {[live |-> FALSE, site |-> "none", response |-> Ok]}
        \cup {[live |-> FALSE, site |-> s, response |-> r] : s \in sites, r \in Faults}

Terminal == pc \in {"done", "failed"}

\* handleSubmit runs again: a new generateHealthReport starting at the await first
Again(first) ==
    /\ run = 1
    /\ Terminal
    /\ run' = 2
    /\ firstReport' = report
    /\ pc' = first
    /\ last' = NoCall
    /\ locals' = NoLocals
    /\ report' = NoReport
    /\ thrown' = NoError
    /\ hist' = NoHistory
    /\ UNCHANGED <<hasAuth, now, forge, plan>>

SecondInvocation == Again("gHR_getRepository")

InitTwice ==
    /\ hasAuth \in BOOLEAN
    /\ now \in Clocks
    /\ forge \in Repositories
    /\ plan \in FixedPlans(PipelineSites)
    /\ run = 1
    /\ firstReport = NoReport
    /\ Fresh

NextTwice ==
    \/ Next
    \/ SecondInvocation

SpecTwice == InitTwice /\ [][NextTwice]_vars

mvp_SecondInvocation == Again("mvp_gHR_getRepository")

InitMvp ==
    /\ hasAuth \in BOOLEAN
    /\ now \in Clocks
    /\ forge \in Repositories
    /\ plan \in FixedPlans(MvpSites)
    /\ run = 1
    /\ firstReport = NoReport
    /\ pc = "mvp_gHR_getRepository"
    /\ last = NoCall
    /\ locals = NoLocals
    /\ report = NoReport
    /\ thrown = NoError
    /\ hist = NoHistory

NextMvp ==
    \/ mvp_gHR_getRepository
    \/ mvp_cm_getLanguages
    \/ mvp_cm_getRepository
    \/ mvp_cq_getCommits
    \/ mvp_td_getRepository
    \/ mvp_td_getCommits
    \/ mvp_dm_getWorkflowRuns
    \/ mvp_dm_getCommits
    \/ mvp_dm_getRepository
    \/ mvp_SecondInvocation

SpecMvp == InitMvp /\ [][NextMvp]_vars

(***************************************************************************)
(* One invocation, every request answered, over families of repositories   *)
(* that vary one input of an estimator at a time.                          *)
(***************************************************************************)
MaxSize == 41

\* Repository.size (KB) from 0 to MaxSize, all else as in FixOnlyRepo
SizeFamily ==
    {[FixOnlyRepo EXCEPT !.repository.size = k] : k \in 0..MaxSize}

MaxCommits == 3
Messages == {MsgEmpty, MsgFix, MsgDocs, MsgFeat}

\* the commits with the messages ms, newest first, one a day
CommitsOf(ms) == [i \in 1..Len(ms) |-> Commit(ms[i], 0 - (HoursPerDay * i))]

\* every commit list of 1 to MaxCommits messages, all else as in FixOnlyRepo
CommitFamily ==
    {[FixOnlyRepo EXCEPT !.commits = CommitsOf(ms)] :
        ms \in UNION {[1..n -> Messages] : n \in 1..MaxCommits}}

\* repositories with and without JavaScript, over every combination of test signals
SignalFamily ==
    {[base EXCEPT !.root = Directory(r), !.workflows = w, !.files = Files(f)] :
        base \in {LegacyRepo, MatureApp},
        r \in {<<"src">>, <<"src", "tests">>,
               <<"tests", "__tests__", "cypress", "coverage", "jest.config.js">>},
        w \in {NoDirectory, Directory(<<>>), Directory(<<"ci.yml">>)},
        f \in {<<>>, [p \in {"package.json"} |-> File(TRUE, 2, 1, FALSE)],
               [p \in {"package.json"} |-> File(TRUE, 2, 1, TRUE)]}}

\* three short conventional messages and a long one: a commit score of 0.8
NearlyTidy == {[FixOnlyRepo EXCEPT !.commits = CommitsOf(<<MsgFix, MsgFix, MsgFix, MsgDocs>>)]}

\* created the day of the analysis: exemplary history, reviewed pull request, every test
\* signal, nothing outdated
PristineRepo ==
    [repository |-> [size |-> 10, created_at |-> 0],
     languages |-> [l \in {"TypeScript"} |-> 4000],
     commits |-> <<Commit(MsgFeat, 0 - 1), Commit(MsgFeat, 0 - 2)>>,
     pulls |-> <<MergedPR(TitleFeature, 0 - 5, 0 - 4, 1, 2)>>,
     issues |-> <<>>,
     releases |-> <<Release(0 - 1)>>,
     runs |-> Runs(<<WorkflowRun(RunDeploy, "success", "push")>>),
     root |-> Directory(<<"tests", "__tests__", "cypress", "coverage", "jest.config.js">>),
     workflows |-> Directory(<<"ci.yml">>),
     files |-> Files([p \in {"package.json"} |-> File(TRUE, 2, 1, TRUE)])]

InputRepositories ==
    Repositories \cup SizeFamily \cup CommitFamily \cup SignalFamily \cup NearlyTidy
        \cup {PristineRepo}

FaultFree == [live |-> FALSE, site |-> "none", response |-> Ok]

InitInputs ==
    /\ hasAuth \in BOOLEAN
    /\ now \in Clocks
    /\ forge \in InputRepositories
    /\ plan = FaultFree
    /\ run = 1
    /\ firstReport = NoReport
    /\ Fresh

SpecInputs == InitInputs /\ [][Next]_vars

(***************************************************************************)
(* One invocation, every request answered, over every combination of short *)
(* lists of commits, releases, pull requests and workflow runs, in any     *)
(* order of their dates.                                                   *)
(***************************************************************************)
MaxDeployCommits == 2
MaxReleases == 2
MaxPulls == 1

ListsUpTo(S, n) == UNION {[1..k -> S] : k \in 0..n}

\* commits two hours and four days old, fixes and reverts
DatedCommits == {Commit(m, d) : m \in {MsgFix, MsgRevert}, d \in {0 - 2, 0 - 100}}
\* releases two hours and six weeks old
DatedReleases == {Release(d) : d \in {0 - 2, 0 - 1000}}
\* a fix merged four days ago, two days before it was created; a fix merged twelve weeks
\* ago, more than thirty days before any release; a pull request closed unmerged
DatedPulls ==
    {MergedPR(TitleFix, 0 - 50, 0 - 100, 0, 0), MergedPR(TitleFix, 0 - 3000, 0 - 2000, 0, 0),
     UnmergedPR("closed", TitleFeature, 0 - 100, 0)}
RunLists ==
    {Runs(<<>>),
     Runs(<<WorkflowRun(RunDeploy, "failure", "push"), WorkflowRun(RunCI, "success", "push")>>),
     Runs(<<WorkflowRun(RunCI, "failure", "push"), WorkflowRun(RunCI, "success", "push")>>)}

DeployFamily ==
    {[FixOnlyRepo EXCEPT !.commits = cs, !.releases = rs, !.pulls = ps, !.runs = ws] :
        cs \in ListsUpTo(DatedCommits, MaxDeployCommits),
        rs \in ListsUpTo(DatedReleases, MaxReleases),
        ps \in ListsUpTo(DatedPulls, MaxPulls),
        ws \in RunLists}

ScenarioCommits == 30

\* FixOnlyRepo (1000 KB, no release, no run) with ScenarioCommits commits, one a day,
\* every message "fix: correct bug", and any short list of pull requests
ScenarioFamily ==
    {[FixOnlyRepo EXCEPT !.commits = CommitsOf([i \in 1..ScenarioCommits |-> MsgFix]),
                         !.pulls = ps] :
        ps \in ListsUpTo(DatedPulls, MaxPulls)}

\* releases as the forge lists them, most recent first, several of them published after
\* the merge of a pull request; any short list of pull requests
PairingFamily ==
    {[FixOnlyRepo EXCEPT !.releases = rs, !.pulls = ps] :
        rs \in {<<Release(0 - 2), Release(0 - 50)>>,
                <<Release(0 - 50), Release(0 - 1000)>>,
                <<Release(0 - 2), Release(0 - 50), Release(0 - 1000)>>},
        ps \in ListsUpTo(DatedPulls, MaxPulls)}

InitDeploy ==
    /\ hasAuth = TRUE
    /\ now \in Clocks
    /\ forge \in Repositories \cup DeployFamily \cup ScenarioFamily \cup PairingFamily
    /\ plan = FaultFree
    /\ run = 1
    /\ firstReport = NoReport
    /\ Fresh

SpecDeploy == InitDeploy /\ [][Next]_vars

(***************************************************************************)
(* One invocation against a forge that may leave one call site unanswered. *)
(* The event loop resumes every await whose promise has settled: weak      *)
(* fairness of the steps of the invocation.                                *)
(***************************************************************************)
SilentPlans ==
    {[live |-> FALSE, site |-> "none", response |-> Ok]}
        \cup {[live |-> FALSE, site |-> s, response |-> Silent] : s \in PipelineSites}

\* the invocation is suspended at an await whose request the forge never answers
Unanswered == ~plan.live /\ plan.response = Silent /\ pc = plan.site

InitSilent ==
    /\ hasAuth \in BOOLEAN
    /\ now \in Clocks
    /\ forge \in Repositories
    /\ plan \in SilentPlans
    /\ run = 1
    /\ firstReport = NoReport
    /\ Fresh

SpecSilent == InitSilent /\ [][Next]_vars /\ WF_vars(Next)


(***************************************************************************)
(* Properties.                                                             *)
(***************************************************************************)
\* C1: whenever generateHealthReport returns a report, codeQuality.score,
\* technicalDebt.score, deploymentMetrics.score and overallScore are integers
\* between 0 and 100.
C1_ScoresInRange ==
    report.returned =>
        /\ report.codeQuality.score \in 0..100
        /\ report.technicalDebt.score \in 0..100
        /\ report.deploymentMetrics.score \in 0..100
        /\ report.overallScore \in 0..100

\* a report whose technical-debt score is the lower clamp
C1_ClampedReport == report.returned /\ report.technicalDebt.score = 0

\* C2: a request answered 403 "API rate limit exceeded", whichever operation made it,
\* makes generateHealthReport reject with GitHubRateLimitError: not with a generic
\* error, and not go on with an empty result or a default.
C2_RateLimitSurfaces ==
    (last.status = 403 /\ last.rateLimit) =>
        (pc = "failed" /\ thrown.name = "GitHubRateLimitError")

\* C3: once a request was answered 403 "API rate limit exceeded", the invocation
\* issues no further request, and it ends rejecting with the rate-limit error.
C3_RateLimitStops ==
    /\ ~hist.afterRateLimit
    /\ (hist.rateLimited /\ Terminal) =>
           (pc = "failed" /\ thrown.name = "GitHubRateLimitError")

\* C4: no report is returned by an invocation in which a fetch failed with anything but
\* a 404 on a file or directory probe or a 401/403 on a gated endpoint without a token.
C4_FatalFails == report.returned => ~hist.fatalIgnored

\* C5: getWorkflowRuns, getPullRequests and getIssues, refused with 401 or 403, return
\* the empty result when the client has no token and throw the error when it has one.
C5_GatedRefusal ==
    (last.op \in GatedOps /\ last.status \in {401, 403}) =>
        IF hasAuth THEN last.threw /\ last.error.status = last.status
        ELSE ~last.threw /\ last.empty

\* getPullRequests refused with 403 to a client that has a token
C5_RefusedWithToken ==
    /\ last.op = "getPullRequests"
    /\ last.status = 403
    /\ hasAuth
    /\ last.threw

\* C6: when every answer is a 200 except 404s to getFileContent, the invocation returns
\* a report, and no file answered 404 added to testCoverage or outdatedDependencies.
C6_MissingFilesAbsent ==
    (hist.clean /\ Terminal) =>
        /\ pc = "done"
        /\ report.returned
        /\ ~hist.missingCounted

\* a report returned after some getFileContent probe was answered 404
C6_ReportDespiteMissing == pc = "done" /\ hist.clean /\ hist.probeMissing

\* C7: getFileContent and getDirectoryContents, answered 404, throw an error that
\* carries the 404.
C7_NotFoundThrown ==
    (last.op \in ProbeOps /\ last.status = 404) =>
        (last.threw /\ last.error.status = 404)

\* C8, as the code has it: a GitHubRateLimitError carries the reset time in
\* milliseconds (the x-ratelimit-reset header, in seconds, times 1000; without the
\* header the clock plus one hour), the limit (x-ratelimit-limit, else 60) and the
\* remaining quota the forge reported (x-ratelimit-remaining, else 0).
C8_RateLimitErrorFields ==
    last.error.name = "GitHubRateLimitError" =>
        /\ last.error.resetTime =
               IF last.headers.reset.has THEN ParseInt(last.headers.reset.text) * 1000
               ELSE now * MsPerHour + MsPerHour
        /\ last.error.limit =
               IF last.headers.limit.has THEN ParseInt(last.headers.limit.text) ELSE 60
        /\ last.error.remaining =
               IF last.headers.remaining.has
               THEN ParseInt(last.headers.remaining.text) ELSE 0

\* a GitHubRateLimitError for an answer whose x-ratelimit-remaining header says 1
C8_QuotaLeft ==
    /\ last.error.name = "GitHubRateLimitError"
    /\ last.headers.remaining.has
    /\ last.error.remaining = 1

\* C8, as stated: every GitHubRateLimitError carries a remaining quota of 0.
C8_RemainingZero ==
    last.error.name = "GitHubRateLimitError" => last.error.remaining = 0

\* C9: the second of two invocations against the same answers and the same clock returns
\* a report exactly when the first did, with the same codeMetrics, codeQuality and
\* technicalDebt.
C9_SameSections ==
    (run = 2 /\ Terminal) =>
        /\ report.returned = firstReport.returned
        /\ report.codeMetrics = firstReport.codeMetrics
        /\ report.codeQuality = firstReport.codeQuality
        /\ report.technicalDebt = firstReport.technicalDebt

\* C10: the first request is getRepository; when it fails the invocation ends there,
\* with no section computed and nothing left to run; and an invocation that rejects
\* has not gone on past an earlier fatal failure.
C10_FirstFatalSurfaces ==
    /\ hist.firstOp \in {"none", "getRepository"}
    /\ (last.site = "gHR_getRepository" /\ last.threw) =>
           (pc = "failed" /\ report = NoReport /\ ~ENABLED Next)
    /\ pc = "failed" => ~hist.fatalIgnored

\* C11: an invocation suspended at a forge call that is never answered eventually ends
\* by rejecting (the call is cut off after a bounded wait and its time-out is fatal).
C11_UnansweredCallFails == Unanswered ~> (pc = "failed")

\* C12: the code, comment and blank line estimates analyzeCodeMetrics returns add up to
\* totalLines, and blankLines is not negative, whatever the repository size.
C12_LinesAddUp ==
    report.codeMetrics # NoSection =>
        /\ report.codeMetrics.codeLines + report.codeMetrics.commentLines
               + report.codeMetrics.blankLines = report.codeMetrics.totalLines
        /\ report.codeMetrics.blankLines >= 0

\* C12 witness: an odd size, where both floors round down (size 41: 2050 lines,
\* 1537 code, 307 comment, 206 blank).
C12_OddSize ==
    /\ forge.repository.size % 2 = 1
    /\ report.codeMetrics # NoSection
    /\ report.codeMetrics.totalLines = 50 * forge.repository.size
    /\ report.codeMetrics.codeLines * 100 < 75 * report.codeMetrics.totalLines
    /\ report.codeMetrics.commentLines * 100 < 15 * report.codeMetrics.totalLines
    /\ 10 * report.codeMetrics.blankLines > report.codeMetrics.totalLines

\* C13: a non-empty commit list whose messages all match the conventional-commit pattern
\* and are longer than 50 characters scores strictly higher in analyzeCommitMessages
\* than the list of as many empty messages.
C13_ConventionalBeatsEmpty ==
    LET commits == forge.commits
        emptied == [i \in 1..Len(commits) |-> [commits[i] EXCEPT !.message = MsgEmpty]]
    IN  (/\ Len(commits) > 0
         /\ \A i \in 1..Len(commits) :
               IsConventional(commits[i].message) /\ MessageLength(commits[i].message) > 50)
        => RLess(analyzeCommitMessages(emptied), analyzeCommitMessages(commits))

\* C13 witness: analyzeCodeQuality has scored a list of MaxCommits long conventional
\* messages, with and without a body, at the top of the scale.
C13_LongConventionalScored ==
    /\ Len(forge.commits) > 1
    /\ forge.commits[1].message = MsgDocs
    /\ forge.commits[2].message = MsgFeat
    /\ \A i \in 1..Len(forge.commits) : forge.commits[i].message \in {MsgDocs, MsgFeat}
    /\ report.codeQuality # NoSection
    /\ report.codeQuality.score = 100

\* C14: every TechnicalDebt analyzeTechnicalDebt returns, also when a helper fell back to
\* the default of its catch block, has complexityScore in [0, 1], duplications in
\* [0, 40], testCoverage in [0, 95] and outdatedDependencies in [0, 20].
C14_SubMetricsInRange ==
    report.technicalDebt # NoSection =>
        LET metrics == report.technicalDebt.metrics IN
        /\ ~RLess(metrics.complexityScore, <<0, 1>>)
        /\ ~RLess(<<1, 1>>, metrics.complexityScore)
        /\ metrics.duplications \in 0..40
        /\ metrics.testCoverage \in 0..95
        /\ metrics.outdatedDependencies \in 0..20

\* C14 witness: a TechnicalDebt of the repository that runs into every cap (duplications
\* 40, outdatedDependencies 20), one of whose helpers fell back to its default
\* (testCoverage 25 in place of 95).
C14_CapsAndDefault ==
    /\ report.technicalDebt # NoSection
    /\ hist.fatalIgnored
    /\ report.technicalDebt.metrics.duplications = 40
    /\ report.technicalDebt.metrics.testCoverage = 25
    /\ report.technicalDebt.metrics.outdatedDependencies = 20

\* C15: every DeploymentMetrics analyzeDeploymentMetrics returns has frequency >= 0,
\* leadTime >= 0, meanTimeToRecover >= 0 and changeFailureRate in [0, 100], whatever
\* the releases, runs, pull requests and commits and the order of their dates.
C15_DeploymentMetricsInRange ==
    report.deploymentMetrics # NoSection =>
        /\ ~RLess(report.deploymentMetrics.frequency, <<0, 1>>)
        /\ report.deploymentMetrics.leadTime >= 0
        /\ report.deploymentMetrics.meanTimeToRecover >= 0
        /\ ~RLess(report.deploymentMetrics.changeFailureRate, <<0, 1>>)
        /\ ~RLess(<<100, 1>>, report.deploymentMetrics.changeFailureRate)

\* C15 witness: commits listed oldest first and a pull request merged before it was
\* created, no release: the averages are negative and Math.max(1, ...) makes leadTime
\* and meanTimeToRecover 1.
C15_DatesOutOfOrder ==
    /\ Len(forge.commits) = 2
    /\ forge.commits[1].date < forge.commits[2].date
    /\ forge.commits[1].message = MsgFix
    /\ forge.commits[2].message = MsgRevert
    /\ forge.releases = <<>>
    /\ Len(forge.pulls) = 1
    /\ forge.pulls[1].merged
    /\ forge.pulls[1].merged_at < forge.pulls[1].created_at
    /\ report.deploymentMetrics # NoSection
    /\ report.deploymentMetrics.leadTime = 1
    /\ report.deploymentMetrics.meanTimeToRecover = 1

\* C16: when analyzeDeploymentMetrics got no release and no workflow run, the frequency
\* it returns is exactly 0.
C16_NothingDeployed ==
    (/\ report.deploymentMetrics # NoSection
     /\ forge.releases = <<>>
     /\ forge.runs.workflow_runs = <<>>)
    => report.deploymentMetrics.frequency = <<0, 1>>

\* C16 witness: a repository with commits and a merged pull request but no release and
\* no run has its deployment metrics, with frequency 0.
C16_CommitsButNoDeployment ==
    /\ forge.releases = <<>>
    /\ forge.runs.workflow_runs = <<>>
    /\ Len(forge.commits) = MaxDeployCommits
    /\ Len(forge.pulls) > 0
    /\ forge.pulls[1].merged
    /\ report.deploymentMetrics # NoSection
    /\ report.deploymentMetrics.frequency = <<0, 1>>

IsScenario ==
    /\ forge.repository.size = 1000
    /\ forge.releases = <<>>
    /\ forge.runs.workflow_runs = <<>>
    /\ Len(forge.commits) = ScenarioCommits
    /\ \A i \in 1..Len(forge.commits) : forge.commits[i].message = MsgFix

C19_OnlyGet ==
    /\ \A op \in ForgeOperations : RouteOf(op).verb = "GET"
    /\ last # NoCall => last.route.verb = "GET"

\* C19 witness: the invocation has come as far as listing the issues, the request whose
\* path also takes POST on the forge.
C19_IssuesListed ==
    /\ last.op = "getIssues"
    /\ last.route = [verb |-> "GET", path |-> "/repos/{owner}/{repo}/issues"]
    /\ last.status = 200

\* C20: when no sampled merged pull request yields a valid sample (none at all included),
\* leadTime is half the average inter-release interval if there are two releases or
\* more, else the average inter-commit interval if there are two commits or more, else
\* a fixed default (each tier as calculateLeadTime computes it, rounded).
C20_FallbackOrder ==
    LET releases == forge.releases
        commits == forge.commits
        mergedPRs == Slice0(SelectSeq(PullsInState("closed"), IsMerged), 10)
        interRelease == Rat(ReleaseGaps(Slice0(releases, 5)), 2 * (Len(releases) - 1))
        interCommit == Rat(commits[1].date - commits[Len(commits)].date, Len(commits))
        AtLeastOne(x) == IF RLess(x, <<1, 1>>) THEN <<1, 1>> ELSE x
    IN  (/\ report.deploymentMetrics # NoSection
         /\ LeadTimeSamples(mergedPRs, releases) = <<>>)
        => report.deploymentMetrics.leadTime \in
               IF Len(releases) >= 2 THEN {Round(AtLeastOne(interRelease))}
               ELSE IF Len(commits) >= 2 THEN {Round(AtLeastOne(interCommit))}
               ELSE {24, 48}

\* the releases are listed most recent first
RecentFirst(releases) ==
    \A i \in 1..(Len(releases) - 1) :
        releases[i].published_at >= releases[i + 1].published_at

\* the hours from the merge of pr to the chronologically earliest release published
\* after it, as a one-element sequence; <<>> when there is none or it is 30 days or more
EarliestReleaseSample(pr, releases) ==
    LET after == {i \in 1..Len(releases) : releases[i].published_at > pr.merged_at}
    IN  IF after = {} THEN <<>>
        ELSE LET e == CHOOSE i \in after :
                          \A j \in after : releases[i].published_at <= releases[j].published_at
                 hours == releases[e].published_at - pr.merged_at
             IN  IF hours < 30 * 24 THEN <<hours>> ELSE <<>>

RECURSIVE EarliestReleaseSamples(_, _)
EarliestReleaseSamples(prs, releases) ==
    IF prs = <<>> THEN <<>>
    ELSE EarliestReleaseSample(Head(prs), releases)
             \o EarliestReleaseSamples(Tail(prs), releases)

\* C21: with the releases listed most recent first, each of the (at most 10) sampled
\* merged pull requests is paired with the earliest release published after its merge,
\* samples of 30 days or more are dropped, and leadTime is the average of the rest.
C21_NextReleasePaired ==
    LET mergedPRs == Slice0(SelectSeq(PullsInState("closed"), IsMerged), 10)
        samples == EarliestReleaseSamples(mergedPRs, forge.releases)
    IN  (/\ report.deploymentMetrics # NoSection
         /\ RecentFirst(forge.releases)
         /\ samples # <<>>)
        => report.deploymentMetrics.leadTime = Round(Rat(SumInts(samples), Len(samples)))

\* C22: changeFailureRate is the share, in percent, of the deployment-related runs that
\* concluded in failure; when no run is deployment-related, whether or not there are
\* other runs, it is the share of the commits whose message mentions revert, rollback
\* or hotfix (0 when there is no commit).
C22_FailureRateTiers ==
    LET runs == forge.runs.workflow_runs
        commits == forge.commits
        deploymentRuns == SelectSeq(runs, IsDeploymentRun)
        expected ==
            IF Len(deploymentRuns) > 0
            THEN Rat(Len(SelectSeq(deploymentRuns, IsFailedRun)) * 100, Len(deploymentRuns))
            ELSE IF Len(commits) > 0
            THEN Rat(Len(SelectSeq(commits, IsRevertCommit)) * 100, Len(commits))
            ELSE <<0, 1>>
    IN  report.deploymentMetrics # NoSection =>
            report.deploymentMetrics.changeFailureRate = ToFixed2(expected)

\* C23: meanTimeToRecover is the average gap between consecutive fix commits, counting
\* the gaps from 1 hour to 7 days; when there is no such gap, with no or one fix commit
\* too, it is the average created-to-merged time of the merged pull requests whose title
\* mentions fix, bug, hotfix or patch (at least 1 hour); a default when there is none.
C23_RecoveryTiers ==
    LET gaps == RecoveryGaps(SelectSeq(forge.commits, IsFixCommit))
        bugFixPRs == SelectSeq(PullsInState("closed"), IsBugFixPR)
        avgPRTime == Rat(SumPRTime(bugFixPRs), Len(bugFixPRs))
    IN  report.deploymentMetrics # NoSection =>
            report.deploymentMetrics.meanTimeToRecover \in
                IF Len(gaps) > 0 THEN {Round(Rat(SumInts(gaps), Len(gaps)))}
                ELSE IF Len(bugFixPRs) > 0
                THEN {Round(IF RLess(avgPRTime, <<1, 1>>) THEN <<1, 1>> ELSE avgPRTime)}
                ELSE {8, 12}

\* C24: the repository age behind the per-week rates of the deployment frequency is the
\* age of the fetched repository: frequency is the larger of releases per week and
\* successful deployment runs per week since forge.repository.created_at (0 in the
\* first week), so that repositories created at different dates get different rates.
C24_FrequencySinceCreation ==
    LET ageDays == calculateRepositoryAge(forge.repository.created_at)
        releaseFreq == Rat(Len(forge.releases) * 7, ageDays)
        workflowFreq ==
            Rat(Len(SelectSeq(forge.runs.workflow_runs, IsSuccessfulDeploy)) * 7, ageDays)
    IN  report.deploymentMetrics # NoSection =>
            report.deploymentMetrics.frequency =
                IF ageDays < 7 THEN <<0, 1>>
                ELSE ToFixed2(IF RLess(releaseFreq, workflowFreq) THEN workflowFreq
                              ELSE releaseFreq)

\* the manifests of the loop over depFiles that the forge has
DepFilesFound == SelectSeq(depFiles, LAMBDA f : forge.files[f].exists)

\* the estimate of the first manifest found, trying package.json (read and parsed when
\* the repository has JavaScript or TypeScript), requirements.txt (read when it has
\* Python), then the depFiles in order; 0 when none is found
FirstManifestEstimate ==
    IF HasNodeLanguage(forge.languages) /\ forge.files["package.json"].exists
                                        /\ forge.files["package.json"].valid
    THEN PackageJsonOutdated(forge.files["package.json"], forge.repository)
    ELSE IF HasLanguage(forge.languages, "Python") /\ forge.files["requirements.txt"].exists
    THEN AgeOutdated(forge.repository, 4)
    ELSE IF Len(DepFilesFound) > 0 THEN AgeOutdated(forge.repository, 6)
    ELSE 0

\* C25: with every request answered, the outdated-dependency count of the report is the
\* estimate of the first manifest found (capped at 20): a manifest found after it adds
\* nothing.
C25_FirstManifestOnly ==
    report.technicalDebt # NoSection =>
        report.technicalDebt.metrics.outdatedDependencies =
            OutdatedDependenciesOf(FirstManifestEstimate)

\* 100 - 25*complexity - 0.4*duplication - 0.25*(100 - coverage) - 3*outdatedCount over
\* the common denominator 20 * c[2] * d[2], floored and clamped to 0..100
DebtFormula(c, d, coverage, outdatedCount) ==
    LET den == 20 * c[2] * d[2]
        num == (den * (100 - (3 * outdatedCount))) - (500 * c[1] * d[2])
               - (8 * d[1] * c[2]) - (5 * c[2] * d[2] * (100 - coverage))
        floored == Floor(Rat(num, den))
    IN  IF floored < 0 THEN 0 ELSE IF floored > 100 THEN 100 ELSE floored

\* C26: in the step where analyzeTechnicalDebt returns, its score is the formula applied
\* to the complexity, duplication and coverage that this analysis computed and to the
\* outdated-dependency count it reports, floored and clamped to [0,100].
C26_DebtScoreFormula ==
    [][(report.technicalDebt = NoSection /\ report'.technicalDebt # NoSection) =>
           report'.technicalDebt.score =
               DebtFormula(locals.complexityScore, locals.duplications, locals.testCoverage,
                           report'.technicalDebt.metrics.outdatedDependencies)]_vars

\* the formula is exercised strictly inside the range, with every term subtracting and a
\* duplication estimate that is not a whole number
C26_EveryTermSubtracts ==
    /\ report.technicalDebt # NoSection
    /\ report.technicalDebt.score \in 1..99
    /\ report.technicalDebt.metrics.outdatedDependencies > 0
    /\ RLess(<<0, 1>>, report.technicalDebt.metrics.complexityScore)
    /\ DuplicationsOf(forge.languages, forge.repository)[2] > 1

\* C26 as stated, over the sub-metrics of the TechnicalDebt returned (complexityScore
\* rounded to two decimals, duplications and testCoverage rounded to whole numbers)
C26_ScoreFromReportedMetrics ==
    report.technicalDebt # NoSection =>
        report.technicalDebt.score =
            DebtFormula(report.technicalDebt.metrics.complexityScore,
                        <<report.technicalDebt.metrics.duplications, 1>>,
                        report.technicalDebt.metrics.testCoverage,
                        report.technicalDebt.metrics.outdatedDependencies)

\* the signals of calculateTestCoverage read off the forge: 15 per root entry with a test
\* signature, 20 for a package.json with a test script signature (counted when
\* manifestCounts), 10 for a non-empty workflow directory
SignalSum(manifestCounts) ==
    (15 * Cardinality({i \in 1..Len(forge.root.entries) :
                          MatchesTestPattern(forge.root.entries[i])}))
    + (IF manifestCounts /\ forge.files["package.json"].exists
                         /\ forge.files["package.json"].testScript THEN 20 ELSE 0)
    + (IF Len(forge.workflows.entries) > 0 THEN 10 ELSE 0)

CoverageFrom(sum) == IF sum = 0 THEN 5 ELSE IF sum < 95 THEN sum ELSE 95

TriggeredRules ==
    {r \in {"critical", "high", "scanning", "conventional"} :
        CASE r = "critical" -> report.codeQuality.issues.critical > 0
          [] r = "high" -> report.codeQuality.issues.high > 0
          [] r = "scanning" -> report.codeQuality.issues.medium > 3
          [] r = "conventional" -> RLess(analyzeCommitMessages(forge.commits), Rat(6, 10))}

RecommendationSet == {report.codeQuality.recommendations[i] :
                         i \in 1..Len(report.codeQuality.recommendations)}

\* C28: the CodeQuality recommendation list is never empty; it holds the recommendation of
\* each threshold rule that triggered, and the two generic recommendations exactly when
\* fewer than two rules triggered.
C28_FillersWhenFewRules ==
    report.codeQuality # NoSection =>
        /\ report.codeQuality.recommendations # <<>>
        /\ RecommendationSet \ {"reviews", "gates"} = TriggeredRules
        /\ ({"reviews", "gates"} \subseteq RecommendationSet) = (Cardinality(TriggeredRules) < 2)
        /\ ({"reviews", "gates"} \cap RecommendationSet = {}) = (Cardinality(TriggeredRules) >= 2)
        /\ Len(report.codeQuality.recommendations) = Cardinality(RecommendationSet)

\* a score below 100 with exactly one rule triggered: its recommendation and the two
\* generic ones
C28_OneRuleAndFillers ==
    /\ report.codeQuality # NoSection
    /\ report.codeQuality.score < 100
    /\ Cardinality(TriggeredRules) = 1
    /\ Len(report.codeQuality.recommendations) = 3

\* C29: TechnicalDebt.score never exceeds 98 (the coverage estimate is at most 95, so the
\* coverage term subtracts at least 1.25 before flooring), and overallScore never
\* exceeds 99.
C29_DebtAtMost98 ==
    /\ report.technicalDebt # NoSection =>
           /\ report.technicalDebt.metrics.testCoverage <= 95
           /\ report.technicalDebt.score <= 98
    /\ report.returned => report.overallScore <= 99

\* the bound is met: no complexity, coverage 95, nothing outdated, a report returned
C29_DebtOf98Reported ==
    /\ report.returned
    /\ report.technicalDebt.score = 98
    /\ report.technicalDebt.metrics.testCoverage = 95
    /\ report.technicalDebt.metrics.complexityScore = <<0, 1>>
    /\ report.technicalDebt.metrics.outdatedDependencies = 0

\* a message of at most 10 characters, not in conventional format, without a body
IsBareMessage(m) == MessageLength(m) <= 10 /\ ~IsConventional(m) /\ ~HasBody(m)

AllBare(commits) == \A i \in 1..Len(commits) : IsBareMessage(commits[i].message)

\* C30: an empty commit list scores 0.5 and CodeQuality.score 50; a non-empty list whose
\* messages are all at most 10 characters, non-conventional and without a body scores 0,
\* so CodeQuality.score is 0, lower than for the empty history.
C30_EmptyHistoryBeatsBareCommits ==
    /\ analyzeCommitMessages(<<>>) = Rat(1, 2)
    /\ report.codeQuality # NoSection =>
           /\ forge.commits = <<>> => report.codeQuality.score = 50
           /\ (forge.commits # <<>> /\ AllBare(forge.commits)) =>
                  /\ analyzeCommitMessages(forge.commits) = <<0, 1>>
                  /\ report.codeQuality.score = 0
                  /\ report.codeQuality.score < CodeQualityOf(<<>>).score

\* a history of bare messages only has been scored 0
C30_BareCommitsScored ==
    /\ report.codeQuality # NoSection
    /\ forge.commits # <<>>
    /\ AllBare(forge.commits)
    /\ report.codeQuality.score = 0

====
